---------------------------- MODULE Spec2Model ----------------------------
(***************************************************************************)
(* A model of the mc-query client library: the VarInt codec, the RCON      *)
(* packet codec, the RCON client, the Query client and the status client.  *)
(*                                                                         *)
(* Machine integers are modelled bit by bit: a word is a function from     *)
(* bit positions (0 = least significant) to {0, 1}.  Bytes are the         *)
(* integers 0..255, byte strings are sequences of bytes, and a Rust        *)
(* String is a sequence of code points.                                    *)
(***************************************************************************)
EXTENDS Integers, Sequences, FiniteSets, TLC

VARIABLES
    \* --- VarInt codec (src/src/varint.rs) ---
    viPc,        \* "value" | "encoded" | "raw" | "decoded"
    viSrc,       \* "value": the bytes come from encoding viValue; "raw": chosen bytes
    viValue,     \* the i32 handed to VarInt::from
    viBytes,     \* VarInt.bytes
    viResult,    \* the Result of try_into
    \* --- RCON packet codec (src/src/rcon/packet.rs) ---
    rcPc,        \* "args" | "built" | "rejected" | "encoded" | "raw" | "decoded"
    rcSrc,       \* "packet": the bytes come from encoding a packet; "raw": chosen bytes
    rcArgs,      \* the arguments of RconPacket::new
    rcRaw,       \* the fields a raw frame was laid out from
    rcBytes,     \* the Bytes handed to RconPacket::try_from
    rcResult,    \* the Result of RconPacket::new, then of try_from
    \* --- RCON client (src/src/rcon/client.rs) ---
    timeout,     \* RconClient.timeout: "None" | "Some"
    outbound,    \* the bytes the client has written to the socket in this call
    inbound,     \* the bytes the server has sent and the client has not read
    closed,      \* the server has closed the connection
    pc,          \* "idle" | "authenticate" | "run_command" | "disconnected" | "off"
    cur,         \* the call in progress, or the last one: [op, arg]
    full_payload,\* the accumulator of run_command_raw
    result,      \* the Result of the last call that returned
    nCalls,      \* calls made so far
    nFrames,     \* frames the server has sent so far
    answer,      \* history: the frames the server has sent since the call began
    clean,       \* history: no unread byte was pending when the call began
    lastRead,    \* history: what the last read_packet of the call returned
    nRead,       \* history: the number of read_packet calls of the call that returned
    authed,      \* history: an authenticate call on this client has returned Ok
    elapsed,     \* ticks of time since the call began
    sinceRead,   \* history: ticks since the call began or last read a packet
    \* --- Query client (src/src/query/mod.rs) ---
    qPc,         \* where stat_basic / stat_full is suspended, "done", or "off"
    qOp,         \* "stat_basic" | "stat_full"
    qSent,       \* the datagrams the call has sent, in order
    qInbox,      \* the datagrams that have arrived on the socket and are not received
    qRecv,       \* history: the datagram the last recv_packet returned
    qSessionId,  \* `session_id` of the handshake() in progress, or of the last one
    qSession,    \* `session` of the function body (the first handshake)
    qToken,      \* `token` of the function body (the first handshake)
    qRetry,      \* <<>>, or the (token, session) bound in the retry arm
    qResult,     \* the Result of the call
    qRandom,     \* history: the values random::<u32>() returned, as 4 bytes each
    qHandshakes, \* history: the number of handshake() calls of the call
    qWaits,      \* history: the number of waits for a stat reply
    qCause,      \* history: what ended the first wait for a stat reply
    qBinds,      \* history: the number of UdpSocket::bind calls of the call
    \* --- status client (src/src/status/mod.rs) ---
    sPc,         \* "start" | "reading" | "done" | "off"
    sArgs,       \* the arguments of status(): [host, port]
    sOut,        \* the bytes status() has written to the socket
    sIn,         \* the bytes the server has sent and status() has not read
    sEof,        \* the server has closed the connection
    sResult,     \* the Result of status()
    sResponse,   \* history: the fields the server laid its response out from
    sConsumed,   \* history: the number of bytes status() has read
    sData,       \* history: the Strings handed to serde_json::from_str
    sVarInts,    \* history: the byte strings read_varint handed to the decoder
    \* --- Packet builder (src/src/packet.rs) ---
    pbPc,        \* "off" | "building" | "built"
    pbId,        \* PacketBuilder.id as u8
    pbBytes,     \* PacketBuilder.bytes
    pbPacket,    \* the Bytes of the Packet that build() returned
    pbCalls,     \* history: the add_ calls, each with its argument
    \* --- Packet type enums (rcon/packet.rs, query/packet.rs, packet.rs) ---
    cvPc,        \* "off" | "input" | "converted" | "back"
    cvEnum,      \* "RconPacketType" | "QueryPacketType" | "PacketId"
    cvDir,       \* "from": variant to integer; "try_from": integer to variant
    cvIn,        \* the variant or the integer converted
    cvOut,       \* the integer, or the Result of try_from
    cvBack       \* cvOut converted back

varintVars == <<viPc, viSrc, viValue, viBytes, viResult>>

codecVars == <<rcPc, rcSrc, rcArgs, rcRaw, rcBytes, rcResult>>

rconVars == <<timeout, outbound, inbound, closed, pc, cur, full_payload, result,
              nCalls, nFrames, answer, clean, lastRead, nRead, authed, elapsed,
              sinceRead>>

queryVars == <<qPc, qOp, qSent, qInbox, qRecv, qSessionId, qSession, qToken, qRetry,
               qResult, qRandom, qHandshakes, qWaits, qCause, qBinds>>

statusVars == <<sPc, sArgs, sOut, sIn, sEof, sResult, sResponse, sConsumed, sData,
                sVarInts>>

builderVars == <<pbPc, pbId, pbBytes, pbPacket, pbCalls>>

enumVars == <<cvPc, cvEnum, cvDir, cvIn, cvOut, cvBack>>

vars == <<varintVars, codecVars, rconVars, queryVars, statusVars, builderVars,
          enumVars>>

\* What the actions of one component leave alone.
exceptVarInt == <<codecVars, rconVars, queryVars, statusVars, builderVars, enumVars>>

exceptCodec == <<varintVars, rconVars, queryVars, statusVars, builderVars, enumVars>>

exceptRcon == <<varintVars, codecVars, queryVars, statusVars, builderVars, enumVars>>

exceptQuery == <<varintVars, codecVars, rconVars, statusVars, builderVars, enumVars>>

exceptStatus == <<varintVars, codecVars, rconVars, queryVars, builderVars, enumVars>>

exceptBuilder == <<varintVars, codecVars, rconVars, queryVars, statusVars, enumVars>>

exceptEnum == <<varintVars, codecVars, rconVars, queryVars, statusVars, builderVars>>

-----------------------------------------------------------------------------
(* Results of fallible operations.  A panic (unreachable!(), a read past   *)
(* the end of a buffer) is an outcome of its own.                          *)

Ok(v) == [kind |-> "Ok", value |-> v, error |-> ""]

Err(e) == [kind |-> "Err", value |-> 0, error |-> e]

\* The result is the error e.
Fails(r, e) == r.kind = "Err" /\ r.error = e

Panic == [kind |-> "Panic", value |-> 0, error |-> ""]

NoResult == [kind |-> "None", value |-> 0, error |-> ""]

-----------------------------------------------------------------------------
(* Each specification below exercises one component; the others rest.      *)

\* The codec of the RCON packets is not exercised.
CodecIdle ==
    /\ rcPc = "idle"
    /\ rcSrc = "none"
    /\ rcArgs = <<>>
    /\ rcRaw = <<>>
    /\ rcBytes = <<>>
    /\ rcResult = NoResult

\* No RCON client exists.
RconIdle ==
    /\ timeout = "None"
    /\ outbound = <<>>
    /\ inbound = <<>>
    /\ closed = FALSE
    /\ pc = "off"
    /\ cur = <<>>
    /\ full_payload = <<>>
    /\ result = NoResult
    /\ nCalls = 0
    /\ nFrames = 0
    /\ answer = <<>>
    /\ clean = TRUE
    /\ lastRead = NoResult
    /\ nRead = 0
    /\ authed = FALSE
    /\ elapsed = 0
    /\ sinceRead = 0

\* No Query call is made.
QueryIdle ==
    /\ qPc = "off"
    /\ qOp = "none"
    /\ qSent = <<>>
    /\ qInbox = <<>>
    /\ qRecv = <<>>
    /\ qSessionId = 0
    /\ qSession = 0
    /\ qToken = 0
    /\ qRetry = <<>>
    /\ qResult = NoResult
    /\ qRandom = <<>>
    /\ qHandshakes = 0
    /\ qWaits = 0
    /\ qCause = "none"
    /\ qBinds = 0

\* No status() call is made.
StatusIdle ==
    /\ sPc = "off"
    /\ sArgs = <<>>
    /\ sOut = <<>>
    /\ sIn = <<>>
    /\ sEof = FALSE
    /\ sResult = NoResult
    /\ sResponse = <<>>
    /\ sConsumed = 0
    /\ sData = <<>>
    /\ sVarInts = <<>>

\* No conversion is exercised.
EnumIdle ==
    /\ cvPc = "off"
    /\ cvEnum = ""
    /\ cvDir = ""
    /\ cvIn = 0
    /\ cvOut = 0
    /\ cvBack = 0

\* No packet is being built.
BuilderIdle ==
    /\ pbPc = "off"
    /\ pbId = 0
    /\ pbBytes = <<>>
    /\ pbPacket = <<>>
    /\ pbCalls = <<>>

\* The VarInt codec is not exercised.
VarIntIdle ==
    /\ viPc = "idle"
    /\ viSrc = "none"
    /\ viValue = 0
    /\ viBytes = <<>>
    /\ viResult = NoResult

-----------------------------------------------------------------------------
(* Words.                                                                  *)

RECURSIVE BitsNat(_, _)
\* The natural number held by bits 0..n-1 of word w.
BitsNat(w, n) ==
    IF n = 0 THEN 0 ELSE BitsNat(w, n - 1) + w[n - 1] * 2^(n - 1)

\* The w-bit word of a natural number n < 2^31.
NatBits(n, w) == [i \in 0..(w - 1) |-> IF i >= 31 THEN 0 ELSE (n \div 2^i) % 2]

BitAnd(a, b) == [i \in DOMAIN a |-> a[i] * b[i]]

BitOr(a, b) == [i \in DOMAIN a |-> IF a[i] + b[i] > 0 THEN 1 ELSE 0]

\* Logical right shift of a word by n bits.
Shr(w, n) ==
    LET top == Cardinality(DOMAIN w) - 1
    IN  [i \in DOMAIN w |-> IF i + n <= top THEN w[i + n] ELSE 0]

\* Left shift of a word by n bits; the bits shifted out are lost.
Shl(w, n) == [i \in DOMAIN w |-> IF i >= n THEN w[i - n] ELSE 0]

IsZero(w) == \A i \in DOMAIN w : w[i] = 0

\* `v as u64` for an i32 v: two's complement, sign-extended to 64 bits.
I32AsU64(v) ==
    LET low == IF v < 0 THEN (v + 2147483647) + 1 ELSE v
    IN  [i \in 0..63 |-> IF i >= 31 THEN (IF v < 0 THEN 1 ELSE 0)
                                    ELSE (low \div 2^i) % 2]

\* The i32 held by a 32-bit word (two's complement).
WordAsI32(w) ==
    IF w[31] = 1 THEN (BitsNat(w, 31) - 2147483647) - 1 ELSE BitsNat(w, 31)

\* The 32-bit word of an i32.
I32Word(v) == [i \in 0..31 |-> I32AsU64(v)[i]]

\* a & b and a | b on bytes (u8).
ByteAnd(a, b) == BitsNat(BitAnd(NatBits(a, 8), NatBits(b, 8)), 8)

ByteOr(a, b) == BitsNat(BitOr(NatBits(a, 8), NatBits(b, 8)), 8)

-----------------------------------------------------------------------------
(* VarInt codec.                                                           *)

SEGMENT_BITS == 127

CONTINUE_BIT == 128

RECURSIVE VarIntFromLoop(_, _)
\* The loop of VarInt::from: value is the u64, buffer the bytes pushed so far.
VarIntFromLoop(value, buffer) ==
    LET temp == BitsNat(BitAnd(value, NatBits(SEGMENT_BITS, 64)), 8)
        next == Shr(value, 7)
        pushed == IF ~IsZero(next)
                  THEN Append(buffer, ByteOr(temp, CONTINUE_BIT))
                  ELSE Append(buffer, temp)
    IN  IF IsZero(next) THEN pushed ELSE VarIntFromLoop(next, pushed)

\* 0xffff_ffff as a u64.
LowWordMask == [i \in 0..63 |-> IF i < 32 THEN 1 ELSE 0]

\* Mutant: the value is sign-extended to 64 bits and not masked to 32.
VarIntFromUnmasked(v) == VarIntFromLoop(I32AsU64(v), <<>>)

\* Mutant: the continuation bit is never set.
VarIntFromNoContinue(v) ==
    LET RECURSIVE Loop(_, _)
        Loop(value, buffer) ==
            LET temp == BitsNat(BitAnd(value, NatBits(SEGMENT_BITS, 64)), 8)
                next == Shr(value, 7)
            IN  IF IsZero(next) THEN Append(buffer, temp)
                ELSE Loop(next, Append(buffer, temp))
    IN  Loop(BitAnd(I32AsU64(v), LowWordMask), <<>>)

\* impl From<i32> for VarInt: the bytes of the VarInt.
VarIntFrom(v) == VarIntFromLoop(BitAnd(I32AsU64(v), LowWordMask), <<>>)

RECURSIVE VarIntTryIntoLoop(_, _, _, _)
\* The loop of VarInt::try_into from byte i on.
VarIntTryIntoLoop(bytes, i, value, position) ==
    IF i > Len(bytes)
    THEN Panic  \* unreachable!()
    ELSE LET current_byte == bytes[i]
             segment == NatBits(ByteAnd(current_byte, SEGMENT_BITS), 32)
             value2 == BitOr(value, Shl(segment, position))
         IN  IF ByteAnd(current_byte, CONTINUE_BIT) = 0
             THEN Ok(WordAsI32(value2))
             ELSE IF position + 7 >= 32
                  THEN Err("InvalidVarInt")
                  ELSE VarIntTryIntoLoop(bytes, i + 1, value2, position + 7)

\* Mutant: the length check is off by one group (position >= 28).
VarIntTryIntoShortLimit(bytes) ==
    LET RECURSIVE Loop(_, _, _)
        Loop(i, value, position) ==
            IF i > Len(bytes)
            THEN Panic
            ELSE LET current_byte == bytes[i]
                     segment == NatBits(ByteAnd(current_byte, SEGMENT_BITS), 32)
                     value2 == BitOr(value, Shl(segment, position))
                 IN  IF ByteAnd(current_byte, CONTINUE_BIT) = 0
                     THEN Ok(WordAsI32(value2))
                     ELSE IF position + 7 >= 28
                          THEN Err("InvalidVarInt")
                          ELSE Loop(i + 1, value2, position + 7)
    IN  Loop(1, I32Word(0), 0)

\* impl TryInto<i32> for VarInt.
VarIntTryInto(bytes) == VarIntTryIntoLoop(bytes, 1, I32Word(0), 0)

-----------------------------------------------------------------------------
(* Inputs of the VarInt codec.                                             *)

\* The longest raw byte string handed to try_into.
MaxRawLen == 6

\* 7-bit groups an input value is built from.
GroupSamples == {0, 1, 64, 127}

\* Bytes a raw byte string is built from.
ByteSamples == {0, 1, 127, 128, 255}

\* The i32 whose 7-bit groups are g0..g3 and whose top 4 bits are g4.
I32OfGroups(g0, g1, g2, g3, g4) ==
    LET low == g0 + 128 * g1 + 16384 * g2 + 2097152 * g3 + 268435456 * (g4 % 8)
    IN  IF g4 >= 8 THEN (low - 2147483647) - 1 ELSE low

I32Inputs ==
    { I32OfGroups(g[1], g[2], g[3], g[4], t) :
        g \in [1..4 -> GroupSamples], t \in 0..15 }
    \cup {2, 255, 25565}

RawInputs == UNION { [1..n -> ByteSamples] : n \in 0..MaxRawLen }

VarIntInit ==
    /\ viResult = NoResult
    /\ \/ /\ viPc = "value"
          /\ viSrc = "value"
          /\ viValue \in I32Inputs
          /\ viBytes = <<>>
       \/ /\ viPc = "raw"
          /\ viSrc = "raw"
          /\ viValue = 0
          /\ viBytes \in RawInputs

\* VarInt::from(viValue)
VarIntEncode ==
    /\ viPc = "value"
    /\ viBytes' = VarIntFrom(viValue)
    /\ viPc' = "encoded"
    /\ UNCHANGED <<viSrc, viValue, viResult>>
    /\ UNCHANGED exceptVarInt

\* VarInt::new(viBytes).try_into()
VarIntDecode ==
    /\ viPc \in {"encoded", "raw"}
    /\ viResult' = VarIntTryInto(viBytes)
    /\ viPc' = "decoded"
    /\ UNCHANGED <<viSrc, viValue, viBytes>>
    /\ UNCHANGED exceptVarInt

VarIntNext == VarIntEncode \/ VarIntDecode

InitVarInt == VarIntInit /\ CodecIdle /\ RconIdle /\ QueryIdle /\ StatusIdle /\ BuilderIdle /\ EnumIdle

SpecVarInt == InitVarInt /\ [][VarIntNext]_vars


-----------------------------------------------------------------------------
(* Properties of the VarInt codec.                                         *)

\* C1: for every i32 v, decoding the bytes produced by encoding v succeeds
\* and returns v.
C1_VarIntRoundTrip ==
    (viPc = "decoded" /\ viSrc = "value") => viResult = Ok(viValue)

\* i32::MIN has been encoded and decoded back.
C1_Witness ==
    /\ viPc = "decoded"
    /\ viSrc = "value"
    /\ viValue = (-2147483647) - 1
    /\ viResult = Ok(viValue)

\* The number of 7-bit groups of the reference encoding of v.
RefLen(v) ==
    IF v < 0 THEN 5
    ELSE IF v < 128 THEN 1
    ELSE IF v < 16384 THEN 2
    ELSE IF v < 2097152 THEN 3
    ELSE IF v < 268435456 THEN 4
    ELSE 5

\* Group i (1 = least significant) of the unsigned 32-bit pattern of v.
RefGroup(v, i) ==
    IF i = 5 THEN (v \div 268435456) % 16 ELSE (v \div (128^(i - 1))) % 128

RefEncoding(v) ==
    [i \in 1..RefLen(v) |->
        RefGroup(v, i) + (IF i < RefLen(v) THEN 128 ELSE 0)]

LiteralVectors ==
    { <<0, <<0>>>>, <<1, <<1>>>>, <<2, <<2>>>>, <<127, <<127>>>>,
      <<128, <<128, 1>>>>, <<255, <<255, 1>>>>, <<25565, <<221, 199, 1>>>>,
      <<2097151, <<255, 255, 127>>>>,
      <<2147483647, <<255, 255, 255, 255, 7>>>>,
      <<-1, <<255, 255, 255, 255, 15>>>>,
      <<(-2147483647) - 1, <<128, 128, 128, 128, 8>>>> }

\* C2: encode(v) is the reference encoding (low 7 bits first, 0x80 on every
\* byte but the last, as many groups as the unsigned pattern needs), has 1 to
\* 5 bytes, exactly 5 for a negative v, and matches the listed vectors.
C2_VarIntEncodeReference ==
    viPc = "encoded" =>
        /\ viBytes = RefEncoding(viValue)
        /\ Len(viBytes) \in 1..5
        /\ viValue < 0 => Len(viBytes) = 5
        /\ \A p \in LiteralVectors : viValue = p[1] => viBytes = p[2]

\* 25565 has been encoded as dd c7 01.
C2_Witness ==
    /\ viPc = "encoded"
    /\ viValue = 25565
    /\ viBytes = <<221, 199, 1>>

\* C3: a byte string whose first 5 bytes all carry the continuation bit
\* decodes to InvalidVarInt; one terminated within its first 5 bytes decodes
\* successfully.
C3_VarIntDecodeLimit ==
    viPc = "decoded" =>
        /\ (Len(viBytes) >= 5 /\ \A i \in 1..5 : viBytes[i] >= 128)
              => viResult = Err("InvalidVarInt")
        /\ (\E i \in 1..5 : i <= Len(viBytes) /\ viBytes[i] < 128)
              => viResult.kind = "Ok"

\* Six continuation bytes have been rejected.
C3_Witness ==
    /\ viPc = "decoded"
    /\ viSrc = "raw"
    /\ Len(viBytes) = 6
    /\ \A i \in 1..6 : viBytes[i] >= 128
    /\ viResult = Err("InvalidVarInt")


-----------------------------------------------------------------------------
(* Strings and fixed-width integers on the wire.                           *)

\* str::is_ascii
IsAscii(s) == \A i \in 1..Len(s) : s[i] < 128

\* str::len: the length in bytes of the UTF-8 form (code points below 0x800).
Utf8Len(s) == Len(s) + Cardinality({i \in 1..Len(s) : s[i] >= 128})

RECURSIVE AsBytes(_)
\* str::as_bytes: the UTF-8 form of a string of code points below 0x800.
\* The string is encoded by halves.
AsBytes(s) ==
    IF s = <<>> THEN <<>>
    ELSE IF Len(s) = 1
    THEN LET c == s[1]
         IN  IF c < 128 THEN <<c>> ELSE <<192 + (c \div 64), 128 + (c % 64)>>
    ELSE LET half == Len(s) \div 2
         IN  AsBytes(SubSeq(s, 1, half)) \o AsBytes(SubSeq(s, half + 1, Len(s)))

\* BufMut::put_i32_le
PutI32LE(v) == [k \in 1..4 |-> BitsNat(Shr(I32Word(v), 8 * (k - 1)), 8)]

\* Buf::get_i32_le on the 4 bytes of b that follow offset `at`.
GetI32LE(b, at) ==
    WordAsI32([i \in 0..31 |-> NatBits(b[at + 1 + (i \div 8)], 8)[i % 8]])

-----------------------------------------------------------------------------
(* RCON packet codec.                                                      *)

RconPacketTypes == {"Response", "Login", "RunCommand"}

\* impl From<RconPacketType> for i32
RconPacketTypeToI32(packet_type) ==
    CASE packet_type = "Response" -> 0
      [] packet_type = "RunCommand" -> 2
      [] packet_type = "Login" -> 3

\* impl TryFrom<i32> for RconPacketType
RconPacketTypeTryFrom(value) ==
    CASE value = 0 -> Ok("Response")
      [] value = 2 -> Ok("RunCommand")
      [] value = 3 -> Ok("Login")
      [] OTHER -> Err("InvalidPacketType")

RconPacket(request_id, packet_type, payload) ==
    [request_id |-> request_id, packet_type |-> packet_type, payload |-> payload]

\* Mutant: the payload is not checked.
RconPacketNewUnchecked(request_id, packet_type, payload) ==
    Ok(RconPacket(request_id, packet_type, payload))

\* RconPacket::new
RconPacketNew(request_id, packet_type, payload) ==
    IF ~IsAscii(payload)
    THEN Err("NonAsciiPayload")
    ELSE Ok(RconPacket(request_id, packet_type, payload))

\* Mutant: the request id and the type are not counted.
RemainingLengthOfPayload(payload) == Utf8Len(payload) + 2

\* get_remaining_length
get_remaining_length(payload) == Utf8Len(payload) + 4 * 2 + 2

\* Mutant: a single zero byte ends the packet.
RconPacketBytesOneNul(packet) ==
    PutI32LE(get_remaining_length(packet.payload))
    \o PutI32LE(packet.request_id)
    \o PutI32LE(RconPacketTypeToI32(packet.packet_type))
    \o AsBytes(packet.payload)
    \o <<0>>

\* impl From<RconPacket> for Bytes
RconPacketBytes(packet) ==
    PutI32LE(get_remaining_length(packet.payload))
    \o PutI32LE(packet.request_id)
    \o PutI32LE(RconPacketTypeToI32(packet.packet_type))
    \o AsBytes(packet.payload)
    \o <<0, 0>>

\* The payload loop of try_from: the index of the first zero byte after the
\* 12-byte header, 0 when there is none (get_u8 then runs off the buffer).
FirstNul(bytes) ==
    LET nuls == {i \in 13..Len(bytes) : bytes[i] = 0}
    IN  IF nuls = {} THEN 0 ELSE CHOOSE i \in nuls : \A j \in nuls : i <= j

\* The check of try_from that a payload byte is ASCII or 0xa7.
HasDisallowedChar(payload) ==
    /\ ~IsAscii(payload)
    /\ \E i \in 1..Len(payload) : payload[i] >= 128 /\ payload[i] # 167

\* Mutant: the packet type is checked before the padding and the length.
RconPacketTryFromTypeFirst(bytes) ==
    IF Len(bytes) < 12 THEN Panic
    ELSE LET len == GetI32LE(bytes, 0)
             request_id == GetI32LE(bytes, 4)
             packet_type == GetI32LE(bytes, 8)
             nul == FirstNul(bytes)
             payload == SubSeq(bytes, 13, nul - 1)
         IN  IF nul = 0 THEN Panic
             ELSE IF HasDisallowedChar(payload) THEN Err("NonAsciiPayload")
             ELSE IF RconPacketTypeTryFrom(packet_type).kind = "Err"
                  THEN RconPacketTypeTryFrom(packet_type)
             ELSE IF nul + 1 > Len(bytes) THEN Panic
             ELSE IF bytes[nul + 1] # 0 THEN Err("InvalidRconResponse")
             ELSE IF get_remaining_length(payload) # len
                  THEN Err("InvalidRconResponse")
             ELSE RconPacketNew(request_id,
                                RconPacketTypeTryFrom(packet_type).value, payload)

\* Mutant: the padding and the length are checked before the payload bytes.
RconPacketTryFromPadFirst(bytes) ==
    IF Len(bytes) < 12 THEN Panic
    ELSE LET len == GetI32LE(bytes, 0)
             request_id == GetI32LE(bytes, 4)
             packet_type == GetI32LE(bytes, 8)
             nul == FirstNul(bytes)
             payload == SubSeq(bytes, 13, nul - 1)
         IN  IF nul = 0 THEN Panic
             ELSE IF nul + 1 > Len(bytes) THEN Panic
             ELSE IF bytes[nul + 1] # 0 THEN Err("InvalidRconResponse")
             ELSE IF get_remaining_length(payload) # len
                  THEN Err("InvalidRconResponse")
             ELSE IF HasDisallowedChar(payload) THEN Err("NonAsciiPayload")
             ELSE IF RconPacketTypeTryFrom(packet_type).kind = "Err"
                  THEN RconPacketTypeTryFrom(packet_type)
             ELSE RconPacketNew(request_id,
                                RconPacketTypeTryFrom(packet_type).value, payload)

\* impl TryFrom<Bytes> for RconPacket.  Every get_* on a buffer that is too
\* short panics.
RconPacketTryFrom(bytes) ==
    IF Len(bytes) < 12 THEN Panic
    ELSE LET len == GetI32LE(bytes, 0)
             request_id == GetI32LE(bytes, 4)
             packet_type == GetI32LE(bytes, 8)
             nul == FirstNul(bytes)
             \* payload.push(current as char): each byte becomes one code point
             payload == SubSeq(bytes, 13, nul - 1)
         IN  IF nul = 0 THEN Panic
             ELSE IF HasDisallowedChar(payload) THEN Err("NonAsciiPayload")
             ELSE IF nul + 1 > Len(bytes) THEN Panic
             ELSE IF bytes[nul + 1] # 0 THEN Err("InvalidRconResponse")
             ELSE IF get_remaining_length(payload) # len
                  THEN Err("InvalidRconResponse")
             ELSE IF RconPacketTypeTryFrom(packet_type).kind = "Err"
                  THEN RconPacketTypeTryFrom(packet_type)
             ELSE RconPacketNew(request_id,
                                RconPacketTypeTryFrom(packet_type).value, payload)

-----------------------------------------------------------------------------
(* Inputs of the RCON packet codec.                                        *)

\* The longest payload of a packet or raw frame handed to the codec.
MaxPayloadLen == 2

\* Request ids: the extremes, the ids of the protocol, and a value whose four
\* bytes differ.
IdSamples == {(-2147483647) - 1, -1, 0, 1, 2, 16909060, 2147483647}

\* Code points of a payload handed to RconPacket::new: NUL, 'A', DEL, the
\* section sign, e-acute.
CharSamples == {0, 65, 127, 167, 233}

\* Payload bytes of a raw frame (none is zero).
WireByteSamples == {65, 127, 128, 167, 255}

\* What follows the payload of a raw frame: the terminator and the padding,
\* a non-zero padding, no padding, no terminator.
TailSamples == {<<0, 0>>, <<0, 1>>, <<0>>, <<>>}

\* Numeric packet types of a raw frame: the three known ones and an unknown.
WireTypeSamples == {0, 1, 2, 3}

StringsOver(chars, n) == UNION { [1..k -> chars] : k \in 0..n }

\* A raw frame: the length field holds the number of bytes that follow it
\* plus `skew`.
RawFrames ==
    { [skew |-> k, request_id |-> id, packet_type |-> t, payload |-> p, tail |-> tl] :
        k \in {-1, 0, 1}, id \in {-1, 1}, t \in WireTypeSamples,
        p \in StringsOver(WireByteSamples, MaxPayloadLen), tl \in TailSamples }

\* The bytes of a raw frame.
RawFrameBytes(f) ==
    PutI32LE(8 + Len(f.payload) + Len(f.tail) + f.skew)
    \o PutI32LE(f.request_id) \o PutI32LE(f.packet_type) \o f.payload \o f.tail

CodecInit ==
    /\ rcResult = NoResult
    /\ \/ /\ rcPc = "args"
          /\ rcSrc = "packet"
          /\ rcArgs \in { RconPacket(id, t, p) :
                            id \in IdSamples, t \in RconPacketTypes,
                            p \in StringsOver(CharSamples, MaxPayloadLen) }
          /\ rcRaw = <<>>
          /\ rcBytes = <<>>
       \/ /\ rcPc = "raw"
          /\ rcSrc = "raw"
          /\ rcArgs = <<>>
          /\ rcRaw \in RawFrames
          /\ rcBytes = RawFrameBytes(rcRaw)

\* RconPacket::new(request_id, packet_type, payload)
CodecNew ==
    /\ rcPc = "args"
    /\ rcResult' = RconPacketNew(rcArgs.request_id, rcArgs.packet_type, rcArgs.payload)
    /\ rcPc' = IF rcResult'.kind = "Ok" THEN "built" ELSE "rejected"
    /\ UNCHANGED <<rcSrc, rcArgs, rcRaw, rcBytes>>
    /\ UNCHANGED exceptCodec

\* packet.bytes()
CodecEncode ==
    /\ rcPc = "built"
    /\ rcBytes' = RconPacketBytes(rcResult.value)
    /\ rcPc' = "encoded"
    /\ UNCHANGED <<rcSrc, rcArgs, rcRaw, rcResult>>
    /\ UNCHANGED exceptCodec

\* RconPacket::try_from(bytes)
CodecDecode ==
    /\ rcPc \in {"encoded", "raw"}
    /\ rcResult' = RconPacketTryFrom(rcBytes)
    /\ rcPc' = "decoded"
    /\ UNCHANGED <<rcSrc, rcArgs, rcRaw, rcBytes>>
    /\ UNCHANGED exceptCodec

CodecNext == CodecNew \/ CodecEncode \/ CodecDecode

InitRconCodec == CodecInit /\ VarIntIdle /\ RconIdle /\ QueryIdle /\ StatusIdle /\ BuilderIdle /\ EnumIdle

SpecRconCodec == InitRconCodec /\ [][CodecNext]_vars

-----------------------------------------------------------------------------
(* Properties of the RCON packet codec.                                    *)

\* C4: for every request id, packet type and ASCII payload without a zero
\* byte, RconPacket::new accepts the packet, and decoding its encoding
\* succeeds and yields the same request id, type and payload.
C4_RconRoundTrip ==
    (rcSrc = "packet" /\ IsAscii(rcArgs.payload)
        /\ \A i \in 1..Len(rcArgs.payload) : rcArgs.payload[i] # 0)
    => /\ rcPc # "rejected"
       /\ rcPc = "decoded" =>
            rcResult = Ok(RconPacket(rcArgs.request_id, rcArgs.packet_type,
                                     rcArgs.payload))

\* A Login packet with request id i32::MIN and a two-character payload has
\* made the round trip.
C4_Witness ==
    /\ rcPc = "decoded"
    /\ rcSrc = "packet"
    /\ rcArgs = RconPacket((-2147483647) - 1, "Login", <<65, 127>>)
    /\ rcResult = Ok(rcArgs)

\* A raw frame that is well formed on the wire: the length field counts the
\* bytes that follow it, the payload ends with two zero bytes, the type is
\* known.
WellFormedOnWire(f) ==
    /\ f.skew = 0
    /\ f.tail = <<0, 0>>
    /\ f.packet_type \in {0, 2, 3}

\* C5: a well-formed clientbound packet whose payload holds the byte 0xA7
\* and otherwise only ASCII bytes decodes successfully to that payload.
C5_SectionSignAccepted ==
    (rcPc = "decoded" /\ rcSrc = "raw" /\ WellFormedOnWire(rcRaw)
        /\ (\E i \in 1..Len(rcRaw.payload) : rcRaw.payload[i] = 167)
        /\ (\A i \in 1..Len(rcRaw.payload) :
                rcRaw.payload[i] < 128 \/ rcRaw.payload[i] = 167))
    => /\ rcResult.kind = "Ok"
       /\ rcResult.value.payload = rcRaw.payload

\* C6: a packet whose null-terminated payload holds a byte >= 0x80 other than
\* 0xA7 decodes to NonAsciiPayload.
C6_NonAsciiRejected ==
    (rcPc = "decoded" /\ rcSrc = "raw" /\ rcRaw.tail # <<>>
        /\ \E i \in 1..Len(rcRaw.payload) :
                rcRaw.payload[i] >= 128 /\ rcRaw.payload[i] # 167)
    => rcResult = Err("NonAsciiPayload")

\* A frame with the payload a7 ff, a bad padding byte and a wrong length has
\* been rejected as NonAsciiPayload.
C6_Witness ==
    /\ rcPc = "decoded"
    /\ rcSrc = "raw"
    /\ rcRaw.payload = <<167, 255>>
    /\ rcRaw.tail = <<0, 1>>
    /\ rcRaw.skew = 1
    /\ rcResult = Err("NonAsciiPayload")

\* The checks of a decode, on the fields a raw frame was laid out from.
BadPadding(f) == f.tail[2] # 0

\* The length field differs from 4 + 4 + the length of the payload as a
\* String + 2.
BadLength(f) ==
    8 + Len(f.payload) + Len(f.tail) + f.skew # 4 + 4 + Utf8Len(f.payload) + 2

BadByte(f) == \E i \in 1..Len(f.payload) : f.payload[i] >= 128 /\ f.payload[i] # 167

BadType(f) == f.packet_type \notin {0, 2, 3}

\* The error of the first check that fails, in the order the claim gives.
FirstFailedCheckAsClaimed(f) ==
    IF BadPadding(f) THEN "InvalidRconResponse"
    ELSE IF BadLength(f) THEN "InvalidRconResponse"
    ELSE IF BadByte(f) THEN "NonAsciiPayload"
    ELSE IF BadType(f) THEN "InvalidPacketType"
    ELSE "none"

\* The error of the first check that fails, the payload bytes first.
FirstFailedCheck(f) ==
    IF BadByte(f) THEN "NonAsciiPayload"
    ELSE IF BadPadding(f) THEN "InvalidRconResponse"
    ELSE IF BadLength(f) THEN "InvalidRconResponse"
    ELSE IF BadType(f) THEN "InvalidPacketType"
    ELSE "none"

\* A raw frame with a terminator and a padding byte has been decoded.
DecodedFrame == rcPc = "decoded" /\ rcSrc = "raw" /\ Len(rcRaw.tail) = 2

\* A frame that passes the four checks decodes, short of a payload with
\* the byte a7, which RconPacket::new rejects.
PassesChecks ==
    \/ rcResult.kind = "Ok"
    \/ /\ \E i \in 1..Len(rcRaw.payload) : rcRaw.payload[i] = 167
       /\ Fails(rcResult, "NonAsciiPayload")

\* C19 as stated: decode reports the first check that fails in the order
\* padding byte (InvalidRconResponse), length (InvalidRconResponse), payload
\* bytes ASCII or a7 (NonAsciiPayload), type (InvalidPacketType); a frame
\* with a bad padding byte and a disallowed payload byte yields
\* InvalidRconResponse.
C19_OrderAsClaimed ==
    DecodedFrame =>
        IF FirstFailedCheckAsClaimed(rcRaw) # "none"
        THEN Fails(rcResult, FirstFailedCheckAsClaimed(rcRaw))
        ELSE PassesChecks

\* C19, amended: decode reports the first check that fails in the order
\* payload bytes ASCII or a7 (NonAsciiPayload), padding byte
\* (InvalidRconResponse), length (InvalidRconResponse), type
\* (InvalidPacketType); a frame with a bad padding byte and a disallowed
\* payload byte yields NonAsciiPayload.
C19_DecodeOrder ==
    DecodedFrame =>
        IF FirstFailedCheck(rcRaw) # "none"
        THEN Fails(rcResult, FirstFailedCheck(rcRaw))
        ELSE PassesChecks

\* A frame with a disallowed payload byte, a bad padding byte, a wrong
\* length and an unknown type has been rejected as NonAsciiPayload.
C19_Witness ==
    /\ DecodedFrame
    /\ rcRaw.payload = <<65, 128>>
    /\ rcRaw.tail = <<0, 1>>
    /\ rcRaw.skew = -1
    /\ rcRaw.packet_type = 1
    /\ Fails(rcResult, "NonAsciiPayload")

\* The i32 that four bytes hold, least significant byte first.
SignedLE(b) ==
    b[1] + 256 * b[2] + 65536 * b[3]
    + 16777216 * (IF b[4] >= 128 THEN b[4] - 256 ELSE b[4])

\* A packet RconPacket::new accepted has been encoded.
Encoded == rcSrc = "packet" /\ rcPc \in {"encoded", "decoded"}

\* C20: the wire form of an encoded RCON packet is i32-LE(length),
\* i32-LE(request id), i32-LE(type), the payload bytes and two zero bytes,
\* where length = 10 + len(payload) = the number of bytes written - 4, and
\* the type is 0 for Response, 2 for RunCommand and 3 for Login.
C20_WireForm ==
    Encoded =>
        LET n == Len(rcArgs.payload)
        IN  /\ Len(rcBytes) = 4 + 4 + 4 + n + 2
            /\ SignedLE(SubSeq(rcBytes, 1, 4)) = 10 + n
            /\ SignedLE(SubSeq(rcBytes, 1, 4)) = Len(rcBytes) - 4
            /\ SignedLE(SubSeq(rcBytes, 5, 8)) = rcArgs.request_id
            /\ SubSeq(rcBytes, 9, 12) =
                 <<CASE rcArgs.packet_type = "Response" -> 0
                     [] rcArgs.packet_type = "RunCommand" -> 2
                     [] rcArgs.packet_type = "Login" -> 3, 0, 0, 0>>
            /\ SubSeq(rcBytes, 13, 12 + n) = rcArgs.payload
            /\ SubSeq(rcBytes, 13 + n, 14 + n) = <<0, 0>>

\* The Login packet with request id 0x01020304 and the payload 41 7f has
\* been encoded to its 16 bytes.
C20_Witness ==
    /\ rcSrc = "packet"
    /\ rcPc = "encoded"
    /\ rcArgs = RconPacket(16909060, "Login", <<65, 127>>)
    /\ rcBytes = <<12, 0, 0, 0, 4, 3, 2, 1, 3, 0, 0, 0, 65, 127, 0, 0>>

-----------------------------------------------------------------------------
(* RCON client.                                                            *)
(*                                                                         *)
(* The socket is a pair of byte streams.  A call suspends only inside      *)
(* read_packet, until the whole frame it asks for has arrived; a call      *)
(* under a timeout can be cancelled while it is suspended.                 *)

MAX_LEN_CLIENTBOUND == 4096

MAX_LEN_SERVERBOUND == 1446

\* RconClient::read_packet on the unread bytes `stream`: ready says whether
\* it can return, res is what it returns, rest the bytes it leaves unread.
\* At end of stream read_i32_le and read_u8 fail with an I/O error.
ReadPacket(stream, eof) ==
    LET have == Len(stream)
        len == GetI32LE(stream, 0)
        n == IF len > 0 THEN len ELSE 0  \* for _ in 0..len
        short == have < 4 \/ have - 4 < n
    IN  IF short
        THEN [ready |-> eof, res |-> Err("Io"), rest |-> <<>>]
        ELSE [ready |-> TRUE,
              res |-> RconPacketTryFrom(PutI32LE(len) \o SubSeq(stream, 5, 4 + n)),
              rest |-> SubSeq(stream, 5 + n, have)]

\* Mutant: a request id of -1 is reported like any other mismatch.
AuthenticateVerdictNoAuthFailed(read) ==
    IF read.kind # "Ok" THEN read
    ELSE IF read.value.packet_type # "RunCommand" THEN Err("InvalidPacketType")
    ELSE IF read.value.request_id # 1 THEN Err("RequestIdMismatch")
    ELSE Ok(<<>>)

\* Mutant: the request id is checked before the packet type.
AuthenticateVerdictIdFirst(read) ==
    IF read.kind # "Ok" THEN read
    ELSE IF read.value.request_id = -1 THEN Err("AuthFailed")
    ELSE IF read.value.request_id # 1 THEN Err("RequestIdMismatch")
    ELSE IF read.value.packet_type # "RunCommand" THEN Err("InvalidPacketType")
    ELSE Ok(<<>>)

\* authenticate_raw after read_packet has returned `read`.
AuthenticateVerdict(read) ==
    IF read.kind # "Ok" THEN read
    ELSE IF read.value.packet_type # "RunCommand" THEN Err("InvalidPacketType")
    ELSE IF read.value.request_id = -1 THEN Err("AuthFailed")
    ELSE IF read.value.request_id # 1 THEN Err("RequestIdMismatch")
    ELSE Ok(<<>>)

\* What one iteration of the loop of run_command_raw leaves.
LoopState(done, res, acc) == [done |-> done, result |-> res, full_payload |-> acc]

\* Mutant: a packet with request id -1 ends the reply like a short packet.
RunCommandStepKeepOutput(acc, read) ==
    IF read.kind # "Ok" THEN LoopState(TRUE, read, acc)
    ELSE IF read.value.request_id = -1 THEN LoopState(TRUE, Ok(acc), acc)
    ELSE IF read.value.request_id # 1
         THEN LoopState(TRUE, Err("RequestIdMismatch"), acc)
    ELSE LET full == acc \o read.value.payload
         IN  IF Utf8Len(read.value.payload) < MAX_LEN_CLIENTBOUND
             THEN LoopState(TRUE, Ok(full), full)
             ELSE LoopState(FALSE, NoResult, full)

\* Mutant: the request id is compared with -1 only.
RunCommandStepAnyId(acc, read) ==
    IF read.kind # "Ok" THEN LoopState(TRUE, read, acc)
    ELSE IF read.value.request_id = -1 THEN LoopState(TRUE, Err("AuthFailed"), acc)
    ELSE LET full == acc \o read.value.payload
         IN  IF Utf8Len(read.value.payload) < MAX_LEN_CLIENTBOUND
             THEN LoopState(TRUE, Ok(full), full)
             ELSE LoopState(FALSE, NoResult, full)

\* Mutant: each packet replaces the accumulator.
RunCommandStepOverwrite(acc, read) ==
    IF read.kind # "Ok" THEN LoopState(TRUE, read, acc)
    ELSE IF read.value.request_id = -1 THEN LoopState(TRUE, Err("AuthFailed"), acc)
    ELSE IF read.value.request_id # 1
         THEN LoopState(TRUE, Err("RequestIdMismatch"), acc)
    ELSE LET full == read.value.payload
         IN  IF Utf8Len(read.value.payload) < MAX_LEN_CLIENTBOUND
             THEN LoopState(TRUE, Ok(full), full)
             ELSE LoopState(FALSE, NoResult, full)

\* Mutant: a payload of MAX_LEN_CLIENTBOUND bytes ends the reply too.
RunCommandStepStopsAtFull(acc, read) ==
    IF read.kind # "Ok" THEN LoopState(TRUE, read, acc)
    ELSE IF read.value.request_id = -1 THEN LoopState(TRUE, Err("AuthFailed"), acc)
    ELSE IF read.value.request_id # 1
         THEN LoopState(TRUE, Err("RequestIdMismatch"), acc)
    ELSE LET full == acc \o read.value.payload
         IN  IF Utf8Len(read.value.payload) <= MAX_LEN_CLIENTBOUND
             THEN LoopState(TRUE, Ok(full), full)
             ELSE LoopState(FALSE, NoResult, full)

\* One iteration of the loop of run_command_raw after read_packet has
\* returned `read`, with `acc` accumulated so far.
RunCommandStep(acc, read) ==
    IF read.kind # "Ok" THEN LoopState(TRUE, read, acc)
    ELSE IF read.value.request_id = -1 THEN LoopState(TRUE, Err("AuthFailed"), acc)
    ELSE IF read.value.request_id # 1
         THEN LoopState(TRUE, Err("RequestIdMismatch"), acc)
    ELSE LET full == acc \o read.value.payload
         IN  IF Utf8Len(read.value.payload) < MAX_LEN_CLIENTBOUND
             THEN LoopState(TRUE, Ok(full), full)
             ELSE LoopState(FALSE, NoResult, full)

-----------------------------------------------------------------------------
(* The RCON client and its server.                                         *)

\* Calls made on one client.
MaxCalls == 2

\* Frames the server sends on one connection.
MaxFrames == 3

\* A command one byte longer than a serverbound payload may be.
LongArg == [i \in 1..MAX_LEN_SERVERBOUND + 1 |-> 97]

\* Passwords and commands: "p", e-acute and the long one.
ArgSamples == {<<112>>, <<233>>, LongArg}

FullA == [i \in 1..MAX_LEN_CLIENTBOUND |-> 97]

\* A frame as a server lays it out.
Frame(id, t, p) ==
    [skew |-> 0, request_id |-> id, packet_type |-> t, payload |-> p, tail |-> <<0, 0>>]

\* The frames the server chooses from: short replies of every id with the
\* types Response and RunCommand, a full-length reply, and a frame the
\* decoder rejects (bad padding).
ServerFrames ==
    { Frame(id, t, <<99>>) : id \in {-1, 1, 2}, t \in {0, 2} }
    \cup { Frame(1, 0, FullA) }
    \cup { [Frame(1, 0, <<99>>) EXCEPT !.tail = <<0, 1>>] }

InCall == pc \in {"authenticate", "run_command"}

\* RconClient::new and RconClient::with_timeout
RconInit ==
    /\ timeout \in {"None", "Some"}
    /\ outbound = <<>>
    /\ inbound = <<>>
    /\ closed = FALSE
    /\ pc = "idle"
    /\ cur = <<>>
    /\ full_payload = <<>>
    /\ result = NoResult
    /\ nCalls = 0
    /\ nFrames = 0
    /\ answer = <<>>
    /\ clean = TRUE
    /\ lastRead = NoResult
    /\ nRead = 0
    /\ authed = FALSE
    /\ elapsed = 0
    /\ sinceRead = 0

\* The bookkeeping of a call that begins.
BeginCall(op, arg) ==
    /\ cur' = [op |-> op, arg |-> arg]
    /\ nCalls' = nCalls + 1
    /\ full_payload' = <<>>
    /\ answer' = <<>>
    /\ clean' = (inbound = <<>>)
    /\ lastRead' = NoResult
    /\ nRead' = 0
    /\ elapsed' = 0
    /\ sinceRead' = 0

\* RconClient::set_timeout
SetTimeout ==
    /\ pc = "idle"
    /\ nCalls < MaxCalls
    /\ \E t \in {"None", "Some"} : t # timeout /\ timeout' = t
    /\ UNCHANGED <<outbound, inbound, closed, pc, cur, full_payload, result,
                   nCalls, nFrames, answer, clean, lastRead, nRead, authed, elapsed,
                   sinceRead>>
    /\ UNCHANGED exceptRcon

\* RconClient::authenticate up to the first read_packet.
Authenticate ==
    /\ pc = "idle"
    /\ nCalls < MaxCalls
    /\ \E password \in ArgSamples :
         LET packet == RconPacketNew(1, "Login", password)
         IN  /\ BeginCall("authenticate", password)
             /\ IF packet.kind = "Ok"
                THEN /\ outbound' = RconPacketBytes(packet.value)
                     /\ pc' = "authenticate"
                     /\ result' = NoResult
                ELSE /\ outbound' = <<>>
                     /\ pc' = "idle"
                     /\ result' = packet
    /\ UNCHANGED <<timeout, inbound, closed, nFrames, authed>>
    /\ UNCHANGED exceptRcon

\* authenticate_raw from the return of read_packet to its own return.
AuthenticateRead ==
    /\ pc = "authenticate"
    /\ LET r == ReadPacket(inbound, closed)
           verdict == AuthenticateVerdict(r.res)
       IN  /\ r.ready
           /\ inbound' = r.rest
           /\ lastRead' = r.res
           /\ nRead' = nRead + 1
           /\ result' = verdict
           /\ pc' = IF verdict.kind = "Panic" THEN "panicked" ELSE "idle"
           /\ authed' = (authed \/ verdict.kind = "Ok")
    /\ UNCHANGED <<timeout, outbound, closed, cur, full_payload, nCalls, nFrames,
                   answer, clean>>
    /\ sinceRead' = 0
    /\ UNCHANGED elapsed
    /\ UNCHANGED exceptRcon

\* RconClient::run_command up to the first read_packet.
RunCommand ==
    /\ pc = "idle"
    /\ nCalls < MaxCalls
    /\ \E command \in ArgSamples :
         LET packet == RconPacketNew(1, "RunCommand", command)
         IN  /\ BeginCall("run_command", command)
             /\ IF packet.kind = "Ok"
                THEN /\ outbound' = RconPacketBytes(packet.value)
                     /\ pc' = "run_command"
                     /\ result' = NoResult
                ELSE /\ outbound' = <<>>
                     /\ pc' = "idle"
                     /\ result' = packet
    /\ UNCHANGED <<timeout, inbound, closed, nFrames, authed>>
    /\ UNCHANGED exceptRcon

\* One iteration of the loop of run_command_raw.
RunCommandRead ==
    /\ pc = "run_command"
    /\ LET r == ReadPacket(inbound, closed)
           step == RunCommandStep(full_payload, r.res)
       IN  /\ r.ready
           /\ inbound' = r.rest
           /\ lastRead' = r.res
           /\ nRead' = nRead + 1
           /\ full_payload' = step.full_payload
           /\ result' = step.result
           /\ pc' = IF ~step.done THEN "run_command"
                    ELSE IF step.result.kind = "Panic" THEN "panicked" ELSE "idle"
    /\ UNCHANGED <<timeout, outbound, closed, cur, nCalls, nFrames, answer, clean,
                   authed>>
    /\ sinceRead' = 0
    /\ UNCHANGED elapsed
    /\ UNCHANGED exceptRcon

\* errors::timeout_err(): the error of a call that timed out.
timeout_err == Err("TimedOut")

\* The timeout of authenticate or run_command expires: the call is dropped
\* where it is suspended and returns the timeout error.
Timeout ==
    /\ InCall
    /\ timeout = "Some"
    /\ result' = timeout_err
    /\ pc' = "idle"
    /\ UNCHANGED <<timeout, outbound, inbound, closed, cur, full_payload,
                   nCalls, nFrames, answer, clean, lastRead, nRead, authed, elapsed,
                   sinceRead>>
    /\ UNCHANGED exceptRcon

\* RconClient::disconnect
Disconnect ==
    /\ pc = "idle"
    /\ pc' = "disconnected"
    /\ UNCHANGED <<timeout, outbound, inbound, closed, cur, full_payload,
                   result, nCalls, nFrames, answer, clean, lastRead, nRead, authed, elapsed,
                   sinceRead>>
    /\ UNCHANGED exceptRcon

\* The server sends one frame in answer to the request it has received,
\* once the client has read what it sent before.
ServerSend ==
    /\ InCall
    /\ ~closed
    /\ nFrames < MaxFrames
    /\ inbound = <<>>
    /\ \E f \in ServerFrames :
         /\ inbound' = inbound \o RawFrameBytes(f)
         /\ answer' = Append(answer, f)
    /\ nFrames' = nFrames + 1
    /\ UNCHANGED <<timeout, outbound, closed, pc, cur, full_payload, result, nCalls,
                   clean, lastRead, nRead, authed, elapsed,
                   sinceRead>>
    /\ UNCHANGED exceptRcon

\* The server closes the connection instead of answering.
ServerClose ==
    /\ InCall
    /\ ~closed
    /\ closed' = TRUE
    /\ UNCHANGED <<timeout, outbound, inbound, pc, cur, full_payload, result,
                   nCalls, nFrames, answer, clean, lastRead, nRead, authed, elapsed,
                   sinceRead>>
    /\ UNCHANGED exceptRcon

RconNext ==
    \/ SetTimeout
    \/ Authenticate
    \/ AuthenticateRead
    \/ RunCommand
    \/ RunCommandRead
    \/ Timeout
    \/ Disconnect
    \/ ServerSend
    \/ ServerClose

InitRcon == RconInit /\ VarIntIdle /\ CodecIdle /\ QueryIdle /\ StatusIdle /\ BuilderIdle /\ EnumIdle

\* The client with a timeout that may expire at any moment of a call.
SpecRcon == InitRcon /\ [][RconNext]_vars

-----------------------------------------------------------------------------
(* The RCON client in time.  Time passes in ticks while a call is          *)
(* suspended; tokio's timeout(d, fut) completes with Elapsed as soon as d  *)
(* has passed since it was first polled and fut is pending.                *)

\* The duration d of Some(d), in ticks.
TimeoutTicks == 2

\* Ticks a call is observed for.
MaxElapsed == 3

\* Mutant: the deadline starts again at every packet read.
DeadlinePerRead == sinceRead >= TimeoutTicks

\* timeout(d, fut) of authenticate and run_command: d has passed since the
\* call began.
DeadlineReached == elapsed >= TimeoutTicks

\* A tick of time passes while the call is suspended.
Tick ==
    /\ InCall
    /\ elapsed < MaxElapsed
    /\ timeout = "Some" => ~DeadlineReached
    /\ elapsed' = elapsed + 1
    /\ sinceRead' = sinceRead + 1
    /\ UNCHANGED <<timeout, outbound, inbound, closed, pc, cur, full_payload, result,
                   nCalls, nFrames, answer, clean, lastRead, nRead, authed>>
    /\ UNCHANGED exceptRcon

\* The timeout expires at its deadline.
TimeoutExpires == DeadlineReached /\ Timeout

RconTimedNext ==
    \/ SetTimeout
    \/ Authenticate
    \/ AuthenticateRead
    \/ RunCommand
    \/ RunCommandRead
    \/ TimeoutExpires
    \/ Disconnect
    \/ ServerSend
    \/ ServerClose
    \/ Tick

SpecRconTimed == InitRcon /\ [][RconTimedNext]_vars

-----------------------------------------------------------------------------
(* Properties of the RCON client.                                          *)

\* The last read_packet of the current call returned a packet.
ReadAPacket == nCalls > 0 /\ nRead >= 1 /\ lastRead.kind = "Ok"

\* The current call is authenticate and its read_packet has returned.
AuthenticateAnswered == nCalls > 0 /\ cur.op = "authenticate" /\ nRead = 1

\* C7: authenticate fails with AuthFailed when the one response packet it
\* reads has type RunCommand and request id -1, and it returns Ok only when
\* that packet has type RunCommand and request id 1.
C7_AuthenticateVerdicts ==
    AuthenticateAnswered =>
        /\ ( /\ lastRead.kind = "Ok"
             /\ lastRead.value.packet_type = "RunCommand"
             /\ lastRead.value.request_id = -1 ) => Fails(result, "AuthFailed")
        /\ result.kind = "Ok" =>
             /\ lastRead.kind = "Ok"
             /\ lastRead.value.packet_type = "RunCommand"
             /\ lastRead.value.request_id = 1

\* An authenticate on a fresh stream was answered with a well-formed frame
\* of type 2 and request id -1, and has failed with AuthFailed.
C7_Witness ==
    /\ AuthenticateAnswered
    /\ clean
    /\ answer = <<Frame(-1, 2, <<99>>)>>
    /\ Fails(result, "AuthFailed")

\* C8 as stated: in authenticate and in run_command, a decodable response
\* whose request id is neither 1 nor -1 makes the call fail with
\* RequestIdMismatch, whatever the type of the packet.
C8_IdMismatchWhateverType ==
    (ReadAPacket /\ lastRead.value.request_id \notin {1, -1})
        => Fails(result, "RequestIdMismatch")

\* C8 amended: in run_command a decodable response whose request id is
\* neither 1 nor -1 makes the call fail with RequestIdMismatch whatever its
\* type; in authenticate it does so when the type is RunCommand, and a
\* response of another type fails with InvalidPacketType.
C8_IdMismatch ==
    (ReadAPacket /\ lastRead.value.request_id \notin {1, -1}) =>
        IF cur.op = "run_command" \/ lastRead.value.packet_type = "RunCommand"
        THEN Fails(result, "RequestIdMismatch")
        ELSE Fails(result, "InvalidPacketType")

\* A run_command read a packet of type Response with request id 2 and has
\* failed with RequestIdMismatch.
C8_Witness ==
    /\ ReadAPacket
    /\ cur.op = "run_command"
    /\ lastRead.value.request_id = 2
    /\ lastRead.value.packet_type = "Response"
    /\ Fails(result, "RequestIdMismatch")

RECURSIVE Payloads(_)
\* The payloads of the frames, one after the other.
Payloads(frames) ==
    IF frames = <<>> THEN <<>>
    ELSE Head(frames).payload \o Payloads(Tail(frames))

\* The frames are decodable packets of request id 1 whose payloads are
\* 4096 bytes long, except the last, which is shorter.
FullThenShort(frames) ==
    /\ Len(frames) >= 1
    /\ \A i \in 1..Len(frames) :
         /\ WellFormedOnWire(frames[i])
         /\ IsAscii(frames[i].payload)
         /\ frames[i].request_id = 1
         /\ IF i < Len(frames)
            THEN Len(frames[i].payload) = 4096
            ELSE Len(frames[i].payload) < 4096

\* The current call is a run_command that began on a stream with nothing
\* pending, has read every frame of the answer and has returned.
RunCommandReturned ==
    /\ nCalls > 0
    /\ cur.op = "run_command"
    /\ pc # "run_command"
    /\ clean
    /\ nRead = Len(answer)

\* C9: when the server answers one command with k >= 1 packets of request
\* id 1 whose payloads are 4096 bytes each except the last, which is
\* shorter, run_command returns the k payloads concatenated in the order of
\* arrival.
C9_Reassembly ==
    (RunCommandReturned /\ FullThenShort(answer)) =>
        /\ result.kind = "Ok"
        /\ result.value = Payloads(answer)

\* A run_command has returned an answer that came in three packets.
C9_Witness ==
    /\ RunCommandReturned
    /\ FullThenShort(answer)
    /\ Len(answer) = 3
    /\ result.kind = "Ok"
    /\ Len(result.value) = 2 * 4096 + 1

\* The frame of the command `arg` with request id 1 and type 2.
CommandFrame(arg) ==
    PutI32LE(10 + Len(arg)) \o <<1, 0, 0, 0>> \o <<2, 0, 0, 0>> \o arg \o <<0, 0>>

\* C10: a run_command on a client that has not authenticated still writes
\* the command to the socket, and when the server answers with request id
\* -1 it fails with AuthFailed, whatever it has accumulated before.
C10_Unauthenticated ==
    (nCalls > 0 /\ cur.op = "run_command" /\ ~authed /\ IsAscii(cur.arg)) =>
        /\ outbound = CommandFrame(cur.arg)
        /\ (ReadAPacket /\ lastRead.value.request_id = -1)
              => (Fails(result, "AuthFailed") /\ pc # "run_command")

\* A run_command without authentication accumulated a full packet of
\* request id 1, then read a packet of request id -1 and failed.
C10_Witness ==
    /\ nCalls > 0
    /\ cur.op = "run_command"
    /\ ~authed
    /\ outbound = CommandFrame(<<112>>)
    /\ nRead = 2
    /\ Len(full_payload) = 4096
    /\ lastRead.kind = "Ok"
    /\ lastRead.value.request_id = -1
    /\ Fails(result, "AuthFailed")

\* C21: in authenticate the type of the response is checked before its
\* request id: a response whose type is not RunCommand fails with
\* InvalidPacketType for every request id, -1 and 1 included.
C21_TypeBeforeId ==
    (AuthenticateAnswered /\ lastRead.kind = "Ok"
        /\ lastRead.value.packet_type # "RunCommand")
    => /\ Fails(result, "InvalidPacketType")
       /\ pc # "authenticate"

\* An authenticate on a fresh stream, on a client that never authenticated,
\* was answered with a frame of type Response and request id -1 and has
\* failed with InvalidPacketType.
C21_Witness ==
    /\ AuthenticateAnswered
    /\ clean
    /\ nCalls = 1
    /\ answer = <<Frame(-1, 0, <<99>>)>>
    /\ Fails(result, "InvalidPacketType")

\* The current call is a run_command that has written its packet.
RunCommandSent == nCalls > 0 /\ cur.op = "run_command" /\ IsAscii(cur.arg)

\* C22: run_command writes exactly one packet (request id 1, type
\* RunCommand) and then reads response packets one at a time; it goes on
\* reading as long as every packet it has read has a payload of exactly
\* 4096 bytes, and it returns after the first packet whose payload is
\* shorter, or at the first error, having read no packet beyond that one.
C22_ReadsUntilShort ==
    RunCommandSent =>
        /\ outbound = CommandFrame(cur.arg)
        /\ pc = "run_command" =>
             /\ Len(full_payload) = 4096 * nRead
             /\ nRead > 0 =>
                  /\ lastRead.kind = "Ok"
                  /\ Len(lastRead.value.payload) = 4096
        /\ (pc # "run_command" /\ result.kind = "Ok") =>
             /\ nRead >= 1
             /\ lastRead.kind = "Ok"
             /\ Len(lastRead.value.payload) < 4096
             /\ Len(result.value) = 4096 * (nRead - 1) + Len(lastRead.value.payload)
        /\ pc # "run_command" => result.kind \in {"Ok", "Err", "Panic"}

\* A run_command has read one full packet and is still reading.
C22_Witness ==
    /\ RunCommandSent
    /\ pc = "run_command"
    /\ nRead = 1
    /\ Len(full_payload) = 4096
    /\ inbound = <<>>

\* The call that begins has an argument with a non-ASCII character and
\* leaves the connection as it was.
RejectedCallLeavesConnection ==
    (nCalls' = nCalls + 1 /\ ~IsAscii(cur'.arg)) =>
        /\ UNCHANGED <<inbound, closed, nFrames, timeout, authed>>
        /\ pc' = pc

\* The current call had an argument with a non-ASCII character: it has
\* written nothing, read nothing and failed with NonAsciiPayload.
RejectedCall ==
    (nCalls > 0 /\ ~IsAscii(cur.arg)) =>
        /\ outbound = <<>>
        /\ nRead = 0
        /\ pc \in {"idle", "disconnected"}
        /\ Fails(result, "NonAsciiPayload")

\* C23: authenticate and run_command called with an argument that holds a
\* non-ASCII character fail with NonAsciiPayload before anything is
\* written to the socket, and the state of the connection is unchanged.
C23_NonAsciiArgument == [](RejectedCall) /\ [][RejectedCallLeavesConnection]_vars

\* The second call on a client, an authenticate with the password e-acute
\* after a run_command that was sent, has failed with NonAsciiPayload.
C23_Witness ==
    /\ nCalls = 2
    /\ cur = [op |-> "authenticate", arg |-> <<233>>]
    /\ outbound = <<>>
    /\ nFrames > 0
    /\ Fails(result, "NonAsciiPayload")

\* C18: every RCON packet the client writes has a payload of at most
\* MAX_LEN_SERVERBOUND bytes: authenticate and run_command with a longer
\* argument write nothing and fail with PayloadTooLong.
C18_ServerboundLimit ==
    /\ Len(outbound) <= 4 + 4 + 4 + MAX_LEN_SERVERBOUND + 2
    /\ (nCalls > 0 /\ Len(cur.arg) > MAX_LEN_SERVERBOUND)
         => /\ outbound = <<>>
            /\ pc = "idle"
            /\ Fails(result, "PayloadTooLong")

-----------------------------------------------------------------------------
(* Properties of the RCON client in time.                                  *)

\* A call with a timeout is never in progress later than TimeoutTicks
\* after it began, and the timeout error is returned at that time and at
\* no other.
WithinDeadline ==
    /\ (InCall /\ timeout = "Some") => elapsed <= TimeoutTicks
    /\ Fails(result, "TimedOut") => elapsed = TimeoutTicks

\* A call in progress with a timeout at its deadline ends by the timeout
\* error unless a packet is read at that very moment; a call without a
\* timeout ends only by what read_packet returns.
EndsByReadOrDeadline ==
    (InCall /\ pc' # pc) =>
        \/ nRead' = nRead + 1
        \/ /\ timeout = "Some"
           /\ elapsed = TimeoutTicks
           /\ Fails(result', "TimedOut")

\* C17: with a timeout d configured, one deadline covers a whole
\* authenticate or run_command call: the call fails with the timeout error
\* when its response is not read within d of its start, however recently
\* the last packet was read; with no timeout the call waits for the server
\* as long as it takes.
C17_OneDeadline == [](WithinDeadline) /\ [][EndsByReadOrDeadline]_vars

\* run_command has timed out although it read its first packet less than
\* TimeoutTicks after it began, and less than TimeoutTicks ago.
C17_Witness ==
    /\ pc = "idle"
    /\ nCalls > 0
    /\ cur.op = "run_command"
    /\ Fails(result, "TimedOut")
    /\ nRead = 1
    /\ sinceRead < TimeoutTicks
    /\ elapsed - sinceRead < TimeoutTicks
    /\ elapsed - sinceRead > 0

-----------------------------------------------------------------------------
(* Query protocol: integers, strings and datagrams.                        *)
(*                                                                         *)
(* recv_packet returns the 65536 bytes of its buffer, of which the         *)
(* datagram fills the front and zeros the rest.  A received buffer is      *)
(* modelled by the bytes of the datagram that are still unread: a read     *)
(* past them yields 0.  A UDP datagram holds at most 65507 bytes and the   *)
(* parsers read at most 28 bytes past the datagram, so no read reaches     *)
(* the end of the buffer.                                                  *)

QUERY_MAGIC == 65277

SESSION_ID_MASK == 252645135

Reverse(s) == [i \in 1..Len(s) |-> s[Len(s) + 1 - i]]

\* BufMut::put_i32 (big-endian)
PutI32BE(v) == Reverse(PutI32LE(v))

\* BufMut::put_u16 (big-endian)
PutU16BE(v) == <<v \div 256, v % 256>>

\* The first n bytes of the buffer.
Take(r, n) == [i \in 1..n |-> IF i <= Len(r) THEN r[i] ELSE 0]

\* The buffer after n bytes have been read.
Skip(r, n) == IF n >= Len(r) THEN <<>> ELSE SubSeq(r, n + 1, Len(r))

\* Buf::get_i32 (big-endian)
GetI32BE(r) == GetI32LE(Reverse(Take(r, 4)), 0)

\* Mutant: the host port is read most significant byte first.
GetU16BigEndian(r) == 256 * Take(r, 2)[1] + Take(r, 2)[2]
\* Buf::get_u16_le
GetU16LE(r) == Take(r, 2)[1] + 256 * Take(r, 2)[2]

\* The u32 written as 4 bytes, most significant first, as a word.
U32Word(b) == [i \in 0..31 |-> NatBits(b[4 - (i \div 8)], 8)[i % 8]]

\* Mutant: the random value is used as it is.
SessionIdUnmasked(random) == WordAsI32(U32Word(random))

\* (random::<u32>() & SESSION_ID_MASK) as i32
SessionId(random) ==
    WordAsI32(BitAnd(U32Word(random), NatBits(SESSION_ID_MASK, 32)))

\* The request of handshake().
HandshakeRequest(session_id) ==
    PutU16BE(QUERY_MAGIC) \o <<9>> \o PutI32BE(session_id)

\* Mutant: the full stat request goes out without its 4 padding bytes.
StatRequestNoPadding(op, session, token) ==
    PutU16BE(QUERY_MAGIC) \o <<0>> \o PutI32BE(session) \o PutI32BE(token)
\* The request built by stat_basic and by stat_full.
StatRequest(op, session, token) ==
    PutU16BE(QUERY_MAGIC) \o <<0>> \o PutI32BE(session) \o PutI32BE(token)
    \o (IF op = "stat_full" THEN <<0, 0, 0, 0>> ELSE <<>>)

\* What a parsing step leaves: its Result and the unread bytes.
Parsed(res, rest) == [res |-> res, rest |-> rest]

\* Mutant: validate_packet compares the session id before the type.
validate_packetSessionFirst(packet, expected_type, expected_session) ==
    LET recv_type == Take(packet, 1)[1]
        recv_session == GetI32BE(Skip(packet, 1))
    IN  IF recv_session # expected_session
        THEN Parsed(Err("SessionIdMismatch"), Skip(packet, 5))
        ELSE IF recv_type # expected_type
        THEN Parsed(Err("InvalidPacketType"), Skip(packet, 5))
        ELSE Parsed(Ok(<<>>), Skip(packet, 5))
\* validate_packet
validate_packet(packet, expected_type, expected_session) ==
    LET recv_type == Take(packet, 1)[1]
        recv_session == GetI32BE(Skip(packet, 1))
    IN  IF recv_type # expected_type
        THEN Parsed(Err("InvalidPacketType"), Skip(packet, 1))
        ELSE IF recv_session # expected_session
        THEN Parsed(Err("SessionIdMismatch"), Skip(packet, 5))
        ELSE Parsed(Ok(<<>>), Skip(packet, 5))

\* String::from_utf8 succeeds.  Exact for bytes below 0xE0: the forms of
\* one byte and of two bytes.
IsUtf8(b) ==
    \A i \in 1..Len(b) :
        \/ b[i] < 128
        \/ /\ b[i] >= 194
           /\ b[i] < 224
           /\ i < Len(b)
           /\ b[i + 1] >= 128
           /\ b[i + 1] < 192
        \/ /\ b[i] >= 128
           /\ b[i] < 192
           /\ i > 1
           /\ b[i - 1] >= 194
           /\ b[i - 1] < 224

\* The code points of valid UTF-8 bytes: one for each byte that is not a
\* continuation byte.
Utf8Decode(b) ==
    LET NotContinuation(c) == c >= 0
        points == [i \in 1..Len(b) |->
                     IF b[i] < 128 THEN b[i]
                     ELSE IF b[i] >= 194 THEN (b[i] - 192) * 64 + (b[i + 1] - 128)
                     ELSE -1]
    IN  SelectSeq(points, NotContinuation)

\* The index of the first zero byte of b, 0 when there is none.
FirstZero(b) ==
    LET nuls == {i \in 1..Len(b) : b[i] = 0}
    IN  IF nuls = {} THEN 0 ELSE CHOOSE i \in nuls : \A j \in nuls : i <= j

\* get_string
get_string(bytes) ==
    LET nul == FirstZero(bytes)
        buf == IF nul = 0 THEN bytes ELSE SubSeq(bytes, 1, nul - 1)
        rest == IF nul = 0 THEN <<>> ELSE Skip(bytes, nul)
    IN  IF IsUtf8(buf)
        THEN Parsed(Ok(Utf8Decode(buf)), rest)
        ELSE Parsed(Err("InvalidUtf8"), rest)

RECURSIVE ParseDigits(_, _, _, _)
\* The digits of str from index i on, accumulated on acc away from zero
\* upwards (sign = 1) or downwards (sign = -1): the number, or an error
\* when a character is not a digit or the number leaves range.lo..range.hi.
ParseDigits(str, i, acc, range) ==
    IF i > Len(str) THEN Ok(acc)
    ELSE LET c == str[i]
             d == c - 48
         IN  IF c < 48 \/ c > 57 THEN Err("CannotParseInt")
             ELSE IF range.sign = 1 /\ acc > (range.hi - d) \div 10
             THEN Err("CannotParseInt")
             ELSE IF range.sign = -1 /\ acc < (range.lo + d + 9) \div 10
             THEN Err("CannotParseInt")
             ELSE ParseDigits(str, i + 1, acc * 10 + range.sign * d, range)

\* str::parse::<i32>() with its error mapped to CannotParseInt.
ParseI32(str) ==
    LET lo == (0 - 2147483647) - 1
        hi == 2147483647
    IN  IF str = <<>> \/ str = <<43>> \/ str = <<45>> THEN Err("CannotParseInt")
        ELSE IF str[1] = 45
        THEN ParseDigits(str, 2, 0, [sign |-> -1, lo |-> lo, hi |-> hi])
        ELSE ParseDigits(str, IF str[1] = 43 THEN 2 ELSE 1, 0,
                         [sign |-> 1, lo |-> lo, hi |-> hi])

\* str::parse() to an unsigned type of maximum hi.
ParseUnsigned(str, hi) ==
    IF str = <<>> \/ str = <<43>> \/ str = <<45>> THEN Err("CannotParseInt")
    ELSE ParseDigits(str, IF str[1] = 43 THEN 2 ELSE 1, 0,
                     [sign |-> 1, lo |-> 0, hi |-> hi])

\* str::parse::<usize>().  usize is wider than the integers of the model:
\* the numbers of the inputs stay below 2^31.
ParseUsize(str) == ParseUnsigned(str, 2147483647)

\* str::parse::<u16>()
ParseU16(str) == ParseUnsigned(str, 65535)

-----------------------------------------------------------------------------
(* Query protocol: the replies to stat requests.                           *)

\* The text of a key as a String.
K_hostname == <<104, 111, 115, 116, 110, 97, 109, 101>>

K_gametype == <<103, 97, 109, 101, 116, 121, 112, 101>>

K_game_id == <<103, 97, 109, 101, 95, 105, 100>>

K_version == <<118, 101, 114, 115, 105, 111, 110>>

K_plugins == <<112, 108, 117, 103, 105, 110, 115>>

K_map == <<109, 97, 112>>

K_numplayers == <<110, 117, 109, 112, 108, 97, 121, 101, 114, 115>>

K_maxplayers == <<109, 97, 120, 112, 108, 97, 121, 101, 114, 115>>

K_hostport == <<104, 111, 115, 116, 112, 111, 114, 116>>

K_hostip == <<104, 111, 115, 116, 105, 112>>

\* The keys stat_full removes from the map, in the order of the code.
RequiredKeys ==
    <<K_hostname, K_gametype, K_game_id, K_version, K_plugins, K_map,
      K_numplayers, K_maxplayers, K_hostport, K_hostip>>

\* HashMap::insert
Insert(kv, key, value) ==
    [k \in (DOMAIN kv) \cup {key} |-> IF k = key THEN value ELSE kv[k]]

RECURSIVE KvLoop(_, _)
\* The loop of stat_full over the K,V section: the map and the unread bytes.
KvLoop(res, kv) ==
    LET key == get_string(res)
        value == get_string(key.rest)
    IN  IF key.res.kind # "Ok" THEN Parsed(key.res, key.rest)
        ELSE IF key.res.value = <<>> THEN Parsed(Ok(kv), key.rest)
        ELSE IF value.res.kind # "Ok" THEN Parsed(value.res, value.rest)
        ELSE KvLoop(value.rest, Insert(kv, key.res.value, value.res.value))

RECURSIVE PlayersLoop(_, _)
\* The loop of stat_full over the players section.
PlayersLoop(res, players) ==
    LET username == get_string(res)
    IN  IF username.res.kind # "Ok" THEN Parsed(username.res, username.rest)
        ELSE IF username.res.value = <<>> THEN Parsed(Ok(players), username.rest)
        ELSE PlayersLoop(username.rest, Append(players, username.res.value))

\* The index in RequiredKeys of the first key whose removal fails stat_full:
\* the key is absent, or it is a number that does not parse.  0 when none.
FirstFailure(kv) ==
    LET fails(i) ==
            \/ RequiredKeys[i] \notin DOMAIN kv
            \/ i \in {7, 8} /\ ParseUsize(kv[RequiredKeys[i]]).kind # "Ok"
            \/ i = 9 /\ ParseU16(kv[RequiredKeys[i]]).kind # "Ok"
        bad == {i \in 1..10 : fails(i)}
    IN  IF bad = {} THEN 0 ELSE CHOOSE i \in bad : \A j \in bad : i <= j

\* Mutant: a required key that is absent reads as the empty string.
StatFullFieldsLenient(kv) ==
    LET get(k) == IF k \in DOMAIN kv THEN kv[k] ELSE <<>>
        bad == { i \in 7..9 : (IF i = 9 THEN ParseU16(get(RequiredKeys[i]))
                                ELSE ParseUsize(get(RequiredKeys[i]))).kind # "Ok" }
    IN  IF bad # {} THEN Err("CannotParseInt")
        ELSE Ok([motd |-> get(K_hostname), game_type |-> get(K_gametype),
                 game_id |-> get(K_game_id), version |-> get(K_version),
                 plugins |-> get(K_plugins), map |-> get(K_map),
                 num_players |-> ParseUsize(get(K_numplayers)).value,
                 max_players |-> ParseUsize(get(K_maxplayers)).value,
                 host_port |-> ParseU16(get(K_hostport)).value,
                 host_ip |-> get(K_hostip)])

\* The ten kv.remove(..) of stat_full, each followed by `?`.
StatFullFields(kv) ==
    LET first == FirstFailure(kv)
    IN  IF first = 0
        THEN Ok([motd |-> kv[K_hostname], game_type |-> kv[K_gametype],
                 game_id |-> kv[K_game_id], version |-> kv[K_version],
                 plugins |-> kv[K_plugins], map |-> kv[K_map],
                 num_players |-> ParseUsize(kv[K_numplayers]).value,
                 max_players |-> ParseUsize(kv[K_maxplayers]).value,
                 host_port |-> ParseU16(kv[K_hostport]).value,
                 host_ip |-> kv[K_hostip]])
        ELSE IF RequiredKeys[first] \notin DOMAIN kv
        THEN Err("InvalidKeyValueSection")
        ELSE Err("CannotParseInt")

\* Mutant: 9 bytes are skipped before the players section.
StatFullParseSkipsNine(res, session) ==
    LET valid == validate_packet(res, 0, session)
        section == KvLoop(Skip(valid.rest, 11), <<>>)
        fields == StatFullFields(section.res.value)
        players == PlayersLoop(Skip(section.rest, 9), <<>>)
    IN  IF valid.res.kind # "Ok" THEN valid.res
        ELSE IF section.res.kind # "Ok" THEN section.res
        ELSE IF fields.kind # "Ok" THEN fields
        ELSE IF players.res.kind # "Ok" THEN players.res
        ELSE Ok([f \in (DOMAIN fields.value) \cup {"players"} |->
                    IF f = "players" THEN players.res.value ELSE fields.value[f]])

\* stat_full from validate_packet to its return, on the received buffer.
StatFullParse(res, session) ==
    LET valid == validate_packet(res, 0, session)
        section == KvLoop(Skip(valid.rest, 11), <<>>)
        fields == StatFullFields(section.res.value)
        players == PlayersLoop(Skip(section.rest, 10), <<>>)
    IN  IF valid.res.kind # "Ok" THEN valid.res
        ELSE IF section.res.kind # "Ok" THEN section.res
        ELSE IF fields.kind # "Ok" THEN fields
        ELSE IF players.res.kind # "Ok" THEN players.res
        ELSE Ok([f \in (DOMAIN fields.value) \cup {"players"} |->
                    IF f = "players" THEN players.res.value ELSE fields.value[f]])

\* stat_basic from validate_packet to its return, on the received buffer.
StatBasicParse(res, session) ==
    LET valid == validate_packet(res, 0, session)
        motd == get_string(valid.rest)
        game_type == get_string(motd.rest)
        map == get_string(game_type.rest)
        num_str == get_string(map.rest)
        num_players == ParseUsize(num_str.res.value)
        max_str == get_string(num_str.rest)
        max_players == ParseUsize(max_str.res.value)
        host_port == GetU16LE(max_str.rest)
        host_ip == get_string(Skip(max_str.rest, 2))
    IN  IF valid.res.kind # "Ok" THEN valid.res
        ELSE IF motd.res.kind # "Ok" THEN motd.res
        ELSE IF game_type.res.kind # "Ok" THEN game_type.res
        ELSE IF map.res.kind # "Ok" THEN map.res
        ELSE IF num_str.res.kind # "Ok" THEN num_str.res
        ELSE IF num_players.kind # "Ok" THEN num_players
        ELSE IF max_str.res.kind # "Ok" THEN max_str.res
        ELSE IF max_players.kind # "Ok" THEN max_players
        ELSE IF host_ip.res.kind # "Ok" THEN host_ip.res
        ELSE Ok([motd |-> motd.res.value, game_type |-> game_type.res.value,
                 map |-> map.res.value, num_players |-> num_players.value,
                 max_players |-> max_players.value, host_port |-> host_port,
                 host_ip |-> host_ip.res.value])

-----------------------------------------------------------------------------
(* Query client: stat_basic and stat_full.                                 *)
(*                                                                         *)
(* A call suspends in recv_packet: in handshake() without a timeout, and   *)
(* after a stat request under a timeout of 250 ms.  The socket hands over  *)
(* one datagram for each recv.                                             *)

\* The values random::<u32>() returns, as 4 bytes each.
RandomSamples ==
    { <<a, b, c, d>> : a \in {0, 255}, b \in {0, 255}, c \in {0, 255}, d \in {0, 255} }
    \cup { <<18, 52, 86, 120>>, <<222, 173, 190, 239>> }

\* Mutant: handshake() parses the token of a reply it has not validated.
HandshakeParseUnvalidated(res, session_id) ==
    LET token_str == get_string(Skip(res, 5))
        token == ParseI32(token_str.res.value)
    IN  IF token_str.res.kind # "Ok" THEN token_str.res
        ELSE IF token.kind # "Ok" THEN token
        ELSE Ok([token |-> token.value, session |-> session_id])
\* The body of handshake() after recv_packet has returned the buffer.
HandshakeParse(res, session_id) ==
    LET valid == validate_packet(res, 9, session_id)
        token_str == get_string(valid.rest)
        token == ParseI32(token_str.res.value)
    IN  IF valid.res.kind # "Ok" THEN valid.res
        ELSE IF token_str.res.kind # "Ok" THEN token_str.res
        ELSE IF token.kind # "Ok" THEN token
        ELSE Ok([token |-> token.value, session |-> session_id])

\* The parse of the stat reply by the function that was called.
StatParse(op, res, session) ==
    IF op = "stat_full" THEN StatFullParse(res, session)
    ELSE StatBasicParse(res, session)

\* A session id no handshake generates (0x10).
WrongSession == 16

\* The 11 bytes before the K,V section ("splitnum", 0, 0x80, 0) and the 10
\* bytes before the players section (1, "player_", 0, 0).
KvPadding == <<115, 112, 108, 105, 116, 110, 117, 109, 0, 128, 0>>

PlayersPadding == <<1, 112, 108, 97, 121, 101, 114, 95, 0, 0>>

RECURSIVE Strings(_)
\* Null-terminated strings one after the other.
Strings(strs) ==
    IF strs = <<>> THEN <<>> ELSE Head(strs) \o <<0>> \o Strings(Tail(strs))

\* The fields and the bytes of a payload.
Body(strs, pairs, players, bytes) ==
    [strs |-> strs, pairs |-> pairs, players |-> players, bytes |-> bytes]

\* The payload of a handshake reply.
TokenBody(tok) == Body(<<tok>>, <<>>, <<>>, Strings(<<tok>>))

\* The payload of a full stat reply: pairs is a sequence of <<key, value>>.
FullBody(pairs, players) ==
    Body(<<>>, pairs, players,
         KvPadding
         \o Strings([i \in 1..(2 * Len(pairs)) |-> pairs[(i + 1) \div 2][2 - (i % 2)]])
         \o <<0>> \o PlayersPadding \o Strings(players) \o <<0>>)

\* The payload of a basic stat reply.
BasicBody(motd, game_type, map, num, max, port, ip) ==
    Body(<<motd, game_type, map, num, max, port, ip>>, <<>>, <<>>,
         Strings(<<motd, game_type, map, num, max>>) \o port \o Strings(<<ip>>))

\* The ten pairs of a full stat reply with port 25565, 3 of 20 players.
SamplePairs ==
    << <<K_hostname, <<77>>>>, <<K_gametype, <<83, 77, 80>>>>,
       <<K_game_id, <<77, 67>>>>, <<K_version, <<49>>>>, <<K_plugins, <<>>>>,
       <<K_map, <<119>>>>, <<K_numplayers, <<51>>>>, <<K_maxplayers, <<50, 48>>>>,
       <<K_hostport, <<50, 53, 53, 54, 53>>>>, <<K_hostip, <<104>>>> >>

\* The payloads the server answers a stat request with: a complete one and
\* a defective one (no hostport; a number of players that is no number).
StatBodies(op) ==
    IF op = "stat_full"
    THEN { FullBody(SamplePairs, <<<<97>>, <<98>>>>),
           FullBody(SubSeq(SamplePairs, 1, 8) \o SubSeq(SamplePairs, 10, 10), <<>>) }
    ELSE { BasicBody(<<77>>, <<83>>, <<119>>, <<51>>, <<50, 48>>, <<221, 99>>, <<104>>),
           BasicBody(<<77>>, <<83>>, <<119>>, <<120>>, <<50, 48>>, <<221, 99>>, <<104>>) }

\* The session ids of the requests sent so far.
SessionsSent == { GetI32BE(Skip(qSent[i], 3)) : i \in 1..Len(qSent) }

\* A datagram: its bytes, and the fields the server laid it out from.
Datagram(type, session, body) ==
    [type |-> type, session |-> session, body |-> body,
     bytes |-> <<type>> \o PutI32BE(session) \o body.bytes]

\* The datagrams that can arrive: replies to a handshake (token "77" or
\* "x") and to a stat request, for a session of the call or another one.
Datagrams ==
    LET sids == SessionsSent \cup {WrongSession}
    IN  { Datagram(9, sid, TokenBody(tok)) : sid \in sids, tok \in {<<55, 55>>, <<120>>} }
        \cup { Datagram(0, sid, body) : sid \in sids, body \in StatBodies(qOp) }

QWaiting == qPc \in {"handshake", "stat", "retry_handshake", "retry_stat"}

\* A call of stat_basic or of stat_full begins.
QueryInit ==
    /\ qPc = "start"
    /\ qOp \in {"stat_basic", "stat_full"}
    /\ qSent = <<>>
    /\ qInbox = <<>>
    /\ qRecv = <<>>
    /\ qSessionId = 0
    /\ qSession = 0
    /\ qToken = 0
    /\ qRetry = <<>>
    /\ qResult = NoResult
    /\ qRandom = <<>>
    /\ qHandshakes = 0
    /\ qWaits = 0
    /\ qCause = "none"
    /\ qBinds = 0

\* handshake() up to recv_packet: `sent` says whether socket.send succeeds.
\* The call goes on waiting at `wait`.
BeginHandshake(wait) ==
    \E random \in RandomSamples, sent \in BOOLEAN :
        LET session_id == SessionId(random)
        IN  /\ qRandom' = Append(qRandom, random)
            /\ qSessionId' = session_id
            /\ qHandshakes' = qHandshakes + 1
            /\ IF sent
               THEN /\ qSent' = Append(qSent, HandshakeRequest(session_id))
                    /\ qPc' = wait
                    /\ qResult' = qResult
               ELSE /\ qSent' = qSent
                    /\ qPc' = "done"
                    /\ qResult' = Err("Io")

\* stat_basic / stat_full from their entry to the recv_packet of the first
\* handshake (bind and connect fail like the send).
QStart ==
    /\ qPc = "start"
    /\ BeginHandshake("handshake")
    /\ UNCHANGED <<qOp, qInbox, qRecv, qSession, qToken, qRetry, qWaits, qCause>>
    /\ qBinds' = qBinds + 1
    /\ UNCHANGED exceptQuery

\* The first handshake() returns; on success the stat request is sent and
\* the call waits for the reply.
QHandshakeReply ==
    /\ qPc = "handshake"
    /\ qInbox # <<>>
    /\ LET hs == HandshakeParse(Head(qInbox).bytes, qSessionId)
       IN  IF hs.kind # "Ok"
           THEN /\ qResult' = hs
                /\ qPc' = "done"
                /\ UNCHANGED <<qSent, qSession, qToken, qWaits>>
           ELSE /\ qToken' = hs.value.token
                /\ qSession' = hs.value.session
                /\ \E sent \in BOOLEAN :
                     IF sent
                     THEN /\ qSent' = Append(qSent,
                                 StatRequest(qOp, hs.value.session, hs.value.token))
                          /\ qPc' = "stat"
                          /\ qWaits' = qWaits + 1
                          /\ qResult' = qResult
                     ELSE /\ qSent' = qSent
                          /\ qPc' = "done"
                          /\ qWaits' = qWaits
                          /\ qResult' = Err("Io")
    /\ qInbox' = Tail(qInbox)
    /\ qRecv' = Head(qInbox)
    /\ UNCHANGED <<qOp, qSessionId, qRetry, qRandom, qHandshakes, qCause>>
    /\ UNCHANGED qBinds
    /\ UNCHANGED exceptQuery

\* The handshake() of the retry arm returns; on success a request is built
\* and dropped, and the call waits for a stat reply again.
QRetryHandshakeReply ==
    /\ qPc = "retry_handshake"
    /\ qInbox # <<>>
    /\ LET hs == HandshakeParse(Head(qInbox).bytes, qSessionId)
       IN  IF hs.kind # "Ok"
           THEN /\ qResult' = hs
                /\ qPc' = "done"
                /\ UNCHANGED <<qRetry, qWaits>>
           ELSE /\ qRetry' = hs.value
                /\ qPc' = "retry_stat"
                /\ qWaits' = qWaits + 1
                /\ qResult' = qResult
    /\ qInbox' = Tail(qInbox)
    /\ qRecv' = Head(qInbox)
    /\ UNCHANGED <<qOp, qSent, qSessionId, qSession, qToken, qRandom, qHandshakes,
                   qCause>>
    /\ UNCHANGED qBinds
    /\ UNCHANGED exceptQuery

\* recv_packet returns a datagram in the first or in the second wait for a
\* stat reply: the reply is validated against `session` and parsed.
QStatReply ==
    /\ qPc \in {"stat", "retry_stat"}
    /\ qInbox # <<>>
    /\ qResult' = StatParse(qOp, Head(qInbox).bytes, qSession)
    /\ qPc' = "done"
    /\ qInbox' = Tail(qInbox)
    /\ qRecv' = Head(qInbox)
    /\ qCause' = IF qPc = "stat" THEN "reply" ELSE qCause
    /\ UNCHANGED <<qOp, qSent, qSessionId, qSession, qToken, qRetry, qRandom,
                   qHandshakes, qWaits>>
    /\ UNCHANGED qBinds
    /\ UNCHANGED exceptQuery

\* Mutant: the retry arm binds a socket of its own.
QStatTimeoutFreshSocket ==
    /\ qPc = "stat"
    /\ qInbox = <<>>
    /\ BeginHandshake("retry_handshake")
    /\ qCause' = "timeout"
    /\ qBinds' = qBinds + 1
    /\ UNCHANGED <<qOp, qInbox, qRecv, qSession, qToken, qRetry, qWaits>>
    /\ UNCHANGED exceptQuery

\* The 250 ms of the first wait for a stat reply pass: the retry arm runs
\* handshake() up to its recv_packet.
QStatTimeout ==
    /\ qPc = "stat"
    /\ qInbox = <<>>
    /\ BeginHandshake("retry_handshake")
    /\ qCause' = "timeout"
    /\ UNCHANGED <<qOp, qInbox, qRecv, qSession, qToken, qRetry, qWaits>>
    /\ UNCHANGED qBinds
    /\ UNCHANGED exceptQuery

\* Mutant: the second wait for a stat reply is retried like the first.
QRetryTimeoutAgain ==
    /\ qPc = "retry_stat"
    /\ qInbox = <<>>
    /\ BeginHandshake("retry_handshake")
    /\ UNCHANGED <<qOp, qInbox, qRecv, qSession, qToken, qRetry, qWaits, qCause>>
    /\ UNCHANGED qBinds
    /\ UNCHANGED exceptQuery

\* The 250 ms of the second wait pass: `??` returns the timeout as an error.
QRetryTimeout ==
    /\ qPc = "retry_stat"
    /\ qInbox = <<>>
    /\ qResult' = Err("TimedOut")
    /\ qPc' = "done"
    /\ UNCHANGED <<qOp, qSent, qInbox, qRecv, qSessionId, qSession, qToken, qRetry,
                   qRandom, qHandshakes, qWaits, qCause>>
    /\ UNCHANGED qBinds
    /\ UNCHANGED exceptQuery

\* socket.recv fails in recv_packet: every caller returns the error.
QRecvError ==
    /\ QWaiting
    /\ qInbox = <<>>
    /\ qResult' = Err("Io")
    /\ qPc' = "done"
    /\ qCause' = IF qPc = "stat" THEN "io" ELSE qCause
    /\ UNCHANGED <<qOp, qSent, qInbox, qRecv, qSessionId, qSession, qToken, qRetry,
                   qRandom, qHandshakes, qWaits>>
    /\ UNCHANGED qBinds
    /\ UNCHANGED exceptQuery

\* A datagram arrives on the socket while the call waits.
QDeliver ==
    /\ QWaiting
    /\ qInbox = <<>>
    /\ \E d \in Datagrams : qInbox' = <<d>>
    /\ UNCHANGED <<qPc, qOp, qSent, qRecv, qSessionId, qSession, qToken, qRetry,
                   qResult, qRandom, qHandshakes, qWaits, qCause>>
    /\ UNCHANGED qBinds
    /\ UNCHANGED exceptQuery

QueryNext ==
    \/ QStart
    \/ QHandshakeReply
    \/ QRetryHandshakeReply
    \/ QStatReply
    \/ QStatTimeout
    \/ QRetryTimeout
    \/ QRecvError
    \/ QDeliver

InitQuery == QueryInit /\ VarIntIdle /\ CodecIdle /\ RconIdle /\ StatusIdle /\ BuilderIdle /\ EnumIdle

SpecQuery == InitQuery /\ [][QueryNext]_vars

-----------------------------------------------------------------------------
(* Properties of the Query client.                                         *)

\* The number whose 4 bytes are the low nibbles of the 4 bytes of random.
LowNibbles(random) ==
    (random[1] % 16) * 16777216 + (random[2] % 16) * 65536
    + (random[3] % 16) * 256 + (random[4] % 16)

\* The 4 bytes of a number of 0..2^31-1, most significant first.
BigEndian(n) == <<n \div 16777216, (n \div 65536) % 256, (n \div 256) % 256, n % 256>>

\* id & 0xF0F0F0F0 == 0 for an i32 id.
HighNibblesClear(id) ==
    /\ id >= 0
    /\ \A k \in 1..4 : BigEndian(id)[k] < 16

\* C11: for every random value, the session id of a handshake has the bits
\* of 0xF0F0F0F0 clear (it is the random value with these bits cleared), it
\* is the id written big-endian in the handshake request, and it is the id
\* returned to the caller.
C11_SessionIdMasked ==
    /\ qHandshakes = Len(qRandom)
    /\ qHandshakes > 0 =>
         /\ HighNibblesClear(qSessionId)
         /\ qSessionId = LowNibbles(qRandom[qHandshakes])
    /\ qPc \in {"handshake", "retry_handshake"} =>
         qSent[Len(qSent)] = <<254, 253, 9>> \o BigEndian(qSessionId)
    /\ qWaits >= 1 => qSession = LowNibbles(qRandom[1])
    /\ qWaits = 2 => qRetry.session = LowNibbles(qRandom[2])

\* Two handshakes have returned, on the random values 0xFFFFFFFF and
\* 0xDEADBEEF, the session ids 0x0F0F0F0F and 0x0E0D0E0F.
C11_Witness ==
    /\ qWaits = 2
    /\ qRandom = <<<<255, 255, 255, 255>>, <<222, 173, 190, 239>>>>
    /\ qSession = 252645135
    /\ qRetry.session = 235736591
    /\ qSent[3] = <<254, 253, 9, 14, 13, 14, 15>>

\* C13 as stated: when the first wait for a stat reply times out, the
\* client runs a new handshake and sends a new stat request with the new
\* session id and the new challenge token before it waits again.
C13_RetrySendsRequest ==
    qPc = "retry_stat" =>
        qSent[Len(qSent)] = StatRequest(qOp, qRetry.session, qRetry.token)

-----------------------------------------------------------------------------
(* stat_full on the replies a server can lay out: every required key is    *)
(* absent or present, and a number is decimal or not.                      *)

\* For each required key: 0 absent, 1 present with the value of
\* SamplePairs, 2 (a number) present with the value "x".
KvChoices ==
    { c \in [1..10 -> {0, 1, 2}] : \A i \in 1..10 : c[i] = 2 => i \in 7..9 }

RECURSIVE PairsOf(_, _)
\* The pairs of the choice c from the i-th key on.
PairsOf(c, i) ==
    IF i > 10 THEN <<>>
    ELSE IF c[i] = 0 THEN PairsOf(c, i + 1)
    ELSE IF c[i] = 1 THEN <<SamplePairs[i]>> \o PairsOf(c, i + 1)
    ELSE << <<RequiredKeys[i], <<120>>>> >> \o PairsOf(c, i + 1)

\* The names of a players section: none, one, two of them in the order b,
\* a, and a name that is no UTF-8 after one that is.
PlayerLists == { <<>>, <<<<97>>>>, <<<<98>>, <<97>>>>, <<<<97>>, <<255>>>> }

\* stat_full waits for the reply to its first stat request, and a reply
\* that echoes the session id has arrived.
StatFullInit ==
    LET session_id == SessionId(<<18, 52, 86, 120>>)
    IN  /\ qPc = "stat"
        /\ qOp = "stat_full"
        /\ qSent = <<HandshakeRequest(session_id), StatRequest("stat_full", session_id, 77)>>
        /\ \E c \in KvChoices, players \in PlayerLists :
             qInbox = <<Datagram(0, session_id, FullBody(PairsOf(c, 1), players))>>
        /\ qRecv = Datagram(9, session_id, TokenBody(<<55, 55>>))
        /\ qSessionId = session_id
        /\ qSession = session_id
        /\ qToken = 77
        /\ qRetry = <<>>
        /\ qResult = NoResult
        /\ qRandom = <<<<18, 52, 86, 120>>>>
        /\ qHandshakes = 1
        /\ qWaits = 1
        /\ qCause = "none"
        /\ qBinds = 1

StatFullNext == QStatReply

InitStatFull == StatFullInit /\ VarIntIdle /\ CodecIdle /\ RconIdle /\ StatusIdle /\ BuilderIdle /\ EnumIdle

SpecStatFull == InitStatFull /\ [][StatFullNext]_vars

\* The keys of the pairs.
KeysOf(pairs) == { pairs[i][1] : i \in 1..Len(pairs) }

\* The set of the required keys.
Required == { RequiredKeys[i] : i \in 1..10 }

\* The string is a decimal number: digits, and at least one.
IsDecimal(str) == str # <<>> /\ \A i \in 1..Len(str) : str[i] \in 48..57

\* stat_full has returned on a reply to its stat request that has the
\* right type and session id and whose K,V section lacks a required key.
ReplyLacksKey ==
    /\ qPc = "done"
    /\ qOp = "stat_full"
    /\ qCause = "reply"
    /\ qRecv.type = 0
    /\ qRecv.session = qSession
    /\ Required \ KeysOf(qRecv.body.pairs) # {}

\* C12: stat_full fails whenever a required key is absent from the K,V
\* section of a reply, whatever the values of the other keys, and it fails
\* with InvalidKeyValueSection when the reply is valid otherwise, that is
\* when the numbers it holds are decimal.
C12_MissingKey ==
    ReplyLacksKey =>
        /\ qResult.kind = "Err"
        /\ (\A i \in 1..Len(qRecv.body.pairs) :
               qRecv.body.pairs[i][1] \in {K_numplayers, K_maxplayers, K_hostport}
                   => IsDecimal(qRecv.body.pairs[i][2]))
             => Fails(qResult, "InvalidKeyValueSection")

\* stat_full has failed on a reply that lacks hostport and nothing else.
C12_Witness ==
    /\ ReplyLacksKey
    /\ Required \ KeysOf(qRecv.body.pairs) = {K_hostport}
    /\ Fails(qResult, "InvalidKeyValueSection")

\* In every state of a call: at most two handshakes and two waits for a
\* stat reply; a second handshake only after the first wait timed out; a
\* first wait ended by a reply or by an I/O error has ended the call.
RetryBounded ==
    /\ qHandshakes <= 2
    /\ qWaits <= 2
    /\ qWaits <= qHandshakes
    /\ qHandshakes = 2 => qCause = "timeout"
    /\ qCause \in {"reply", "io"} =>
         /\ qPc = "done"
         /\ qHandshakes = 1
         /\ qWaits = 1
         /\ qCause = "io" => Fails(qResult, "Io")

\* In every step that ends the second wait: the call returns, and it
\* returns an error when no datagram has arrived.
SecondWaitIsLast ==
    (qPc = "retry_stat" /\ qPc' # "retry_stat") =>
        /\ qPc' = "done"
        /\ qHandshakes' = qHandshakes
        /\ qWaits' = qWaits
        /\ qInbox = <<>> => qResult'.kind = "Err"

\* C14: one call makes at most two handshakes and waits for a stat reply
\* at most twice; only a timeout of the first wait starts the retry, an
\* I/O or protocol error returns at once, and a timeout of the second wait
\* fails the call.
C14_BoundedRetry == [](RetryBounded) /\ [][SecondWaitIsLast]_vars

\* The second wait for a stat reply has timed out and the call has failed.
C14_Witness ==
    /\ qPc = "done"
    /\ qHandshakes = 2
    /\ qWaits = 2
    /\ qCause = "timeout"
    /\ Fails(qResult, "TimedOut")

-----------------------------------------------------------------------------
(* Properties of the Query client: sessions, requests and replies.         *)

\* The call has returned from the parse of a datagram of type 0 that
\* recv_packet returned in a wait for a stat reply.
StatReplyReceived ==
    /\ qPc = "done"
    /\ (qWaits = 1 /\ qHandshakes = 1) \/ qWaits = 2
    /\ qRecv.type = 0
    /\ ~Fails(qResult, "Io")
    /\ ~Fails(qResult, "TimedOut")

\* C24: a stat reply is accepted only if it echoes the session id of the
\* most recent handshake of the call (after a retry: of the second
\* handshake); a reply that echoes another id fails with
\* SessionIdMismatch.
C24_LatestSession ==
    StatReplyReceived =>
        IF qRecv.session = qSessionId
        THEN ~Fails(qResult, "SessionIdMismatch")
        ELSE Fails(qResult, "SessionIdMismatch")

\* C25 as stated: on the retry the client uses a fresh UDP binding: the
\* second handshake and stat exchange do not use the socket of the first
\* attempt.
C25_FreshBinding == qHandshakes = 2 => qBinds = 2

\* The second handshake has received a datagram of type 0 that echoes the
\* session id of the first stat request.
LateReplyInRetry ==
    /\ qPc = "done"
    /\ qHandshakes = 2
    /\ qWaits = 1
    /\ qRecv.type = 0
    /\ qRecv.session = qSession

\* C25, amended: a call binds one UDP socket and the retry uses it again:
\* the second handshake and the second wait receive from the socket of
\* the first attempt, so a late reply to the first stat request is
\* received by the second handshake, which fails on it with
\* InvalidPacketType.
C25_OneBinding ==
    /\ qPc # "start" => qBinds = 1
    /\ LateReplyInRetry => Fails(qResult, "InvalidPacketType")

\* The second handshake has failed on a complete reply to the first stat
\* request.
C25_Witness ==
    /\ LateReplyInRetry
    /\ qBinds = 1
    /\ qRecv.session # qSessionId
    /\ qRecv.body \in StatBodies(qOp)
    /\ Fails(qResult, "InvalidPacketType")

-----------------------------------------------------------------------------
\* The datagram d is a handshake request for one of the session ids the
\* call has generated: 7 bytes.
HandshakeLayout(d) ==
    /\ Len(d) = 7
    /\ \E k \in 1..Len(qRandom) :
         d = <<254, 253, 9>> \o BigEndian(LowNibbles(qRandom[k]))

\* The datagram d is a stat request of the function that was called, for
\* the session id and the token the handshake returned: 11 bytes, and 4
\* zero bytes more from stat_full.
StatLayout(d) ==
    LET basic == <<254, 253, 0>> \o BigEndian(qSession) \o BigEndian(qToken)
    IN  IF qOp = "stat_full"
        THEN Len(d) = 15 /\ d = basic \o <<0, 0, 0, 0>>
        ELSE Len(d) = 11 /\ d = basic

\* C26: every datagram a call sends starts with 0xFE 0xFD and a type byte
\* of 9 or 0; with 9 it is magic ++ 9 ++ session id (7 bytes), with 0 it is
\* magic ++ 0 ++ session id ++ token, both big-endian (11 bytes), followed
\* by 4 zero bytes when the call is stat_full (15 bytes).
C26_RequestLayout ==
    \A i \in 1..Len(qSent) :
        LET d == qSent[i]
        IN  /\ Len(d) >= 3
            /\ SubSeq(d, 1, 2) = <<254, 253>>
            /\ d[3] \in {0, 9}
            /\ d[3] = 9 => HandshakeLayout(d)
            /\ d[3] = 0 => StatLayout(d)

\* stat_full has sent a handshake for the session id 0x0F0F0F0F, the stat
\* request for this id and the token 77, and a second handshake.
C26_Witness ==
    /\ qOp = "stat_full"
    /\ Len(qSent) = 3
    /\ qSent[1] = <<254, 253, 9, 15, 15, 15, 15>>
    /\ qSent[2] = <<254, 253, 0, 15, 15, 15, 15, 0, 0, 0, 77, 0, 0, 0, 0>>
    /\ qSent[3] = <<254, 253, 9, 2, 4, 6, 8>>

-----------------------------------------------------------------------------
RECURSIVE Decimal(_)
\* The number a string of digits writes.
Decimal(str) ==
    IF str = <<>> THEN 0
    ELSE 10 * Decimal(SubSeq(str, 1, Len(str) - 1)) + (str[Len(str)] - 48)

\* The indices of the stat requests among the datagrams sent.
StatRequestsSent == { i \in 1..Len(qSent) : qSent[i][3] = 0 }

\* The step sends a stat request.
SendsStatRequest ==
    /\ Len(qSent') = Len(qSent) + 1
    /\ qSent'[Len(qSent')][3] = 0

\* The datagram d answers the handshake for session_id: type 9, the id
\* echoed, a decimal token.
ValidHandshakeReply(d, session_id) ==
    /\ d.type = 9
    /\ d.session = session_id
    /\ IsDecimal(d.body.strs[1])

\* A step that sends a stat request is the return of the most recent
\* handshake from a valid reply, and the request carries the session id of
\* this handshake and the token of this reply.
StatAfterHandshake ==
    SendsStatRequest =>
        /\ qPc \in {"handshake", "retry_handshake"}
        /\ qRecv' = Head(qInbox)
        /\ qSessionId = LowNibbles(qRandom[qHandshakes])
        /\ ValidHandshakeReply(qRecv', qSessionId)
        /\ SubSeq(qSent'[Len(qSent')], 1, 11)
             = <<254, 253, 0>> \o BigEndian(qSessionId)
               \o BigEndian(Decimal(qRecv'.body.strs[1]))

\* Before a handshake has returned a token no stat request has been sent,
\* and none is sent by a call that ends there.
NoRequestWithoutHandshake ==
    /\ qWaits = 0 => StatRequestsSent = {}
    /\ (qPc = "done" /\ qWaits = 0 /\ qRecv # <<>>
          /\ ~ValidHandshakeReply(qRecv, qSessionId))
       => StatRequestsSent = {} /\ qResult.kind = "Err"

\* C27: a stat request is sent only after a handshake reply has been
\* received and validated, with the session id and the token the most
\* recent handshake returned; no stat request is sent when the handshake
\* fails.
C27_StatAfterHandshake ==
    [](NoRequestWithoutHandshake) /\ [][StatAfterHandshake]_vars

\* The handshake for 0x0F0F0F0F has returned the token 77 and the stat
\* request for both has gone out.
C27_Witness ==
    /\ qPc = "stat"
    /\ qRecv.type = 9
    /\ qRecv.session = 252645135
    /\ qRecv.body.strs = <<<<55, 55>>>>
    /\ StatRequestsSent = {2}
    /\ SubSeq(qSent[2], 4, 11) = <<15, 15, 15, 15, 0, 0, 0, 77>>

-----------------------------------------------------------------------------
(* handshake() on the replies a server can lay out: every type, session   *)
(* id and token string.                                                    *)

\* Token strings: decimal numbers with and without sign, at and beyond the
\* ends of i32, and strings that are no numbers ("x", "", "-", "7x", the
\* letter e acute, the byte 0xFF).
TokenSamples ==
    { <<55, 55>>, <<48, 48, 55>>, <<45, 53>>, <<43, 53>>,
      <<50, 49, 52, 55, 52, 56, 51, 54, 52, 55>>,
      <<50, 49, 52, 55, 52, 56, 51, 54, 52, 56>>,
      <<45, 50, 49, 52, 55, 52, 56, 51, 54, 52, 56>>,
      <<45, 50, 49, 52, 55, 52, 56, 51, 54, 52, 57>>,
      <<120>>, <<>>, <<45>>, <<55, 120>>, <<195, 169>>, <<255>> }

\* The replies to the handshake for session_id.
HandshakeReplies(session_id) ==
    { Datagram(type, sid, TokenBody(tok)) :
        type \in {0, 9, 255}, sid \in {session_id, WrongSession}, tok \in TokenSamples }

\* A call is suspended in the recv_packet of its first handshake or of the
\* handshake of its retry arm, and a reply has arrived.
HandshakeInit ==
    \E random \in {<<255, 255, 255, 255>>, <<18, 52, 86, 120>>} :
        LET first == SessionId(<<222, 173, 190, 239>>)
            session_id == SessionId(random)
        IN  /\ qOp \in {"stat_basic", "stat_full"}
            /\ qPc \in {"handshake", "retry_handshake"}
            /\ qInbox \in { <<d>> : d \in HandshakeReplies(session_id) }
            /\ qSessionId = session_id
            /\ qRetry = <<>>
            /\ qResult = NoResult
            /\ qBinds = 1
            /\ IF qPc = "handshake"
               THEN /\ qSent = <<HandshakeRequest(session_id)>>
                    /\ qRecv = <<>>
                    /\ qSession = 0
                    /\ qToken = 0
                    /\ qRandom = <<random>>
                    /\ qHandshakes = 1
                    /\ qWaits = 0
                    /\ qCause = "none"
               ELSE /\ qSent = <<HandshakeRequest(first), StatRequest(qOp, first, 77),
                                 HandshakeRequest(session_id)>>
                    /\ qRecv = Datagram(9, first, TokenBody(<<55, 55>>))
                    /\ qSession = first
                    /\ qToken = 77
                    /\ qRandom = <<<<222, 173, 190, 239>>, random>>
                    /\ qHandshakes = 2
                    /\ qWaits = 1
                    /\ qCause = "timeout"

HandshakeNext ==
    \/ QHandshakeReply
    \/ QRetryHandshakeReply

InitHandshake == HandshakeInit /\ VarIntIdle /\ CodecIdle /\ RconIdle /\ StatusIdle /\ BuilderIdle /\ EnumIdle

SpecHandshake == InitHandshake /\ [][HandshakeNext]_vars

-----------------------------------------------------------------------------
(* Properties of handshake().                                              *)

RECURSIVE NegDecimal(_)
\* The negative of the number a string of digits writes.
NegDecimal(str) ==
    IF str = <<>> THEN 0
    ELSE 10 * NegDecimal(SubSeq(str, 1, Len(str) - 1)) - (str[Len(str)] - 48)

\* a <= b for strings of digits of the same length.
LexLeq(a, b) ==
    \A i \in 1..Len(a) : (\A j \in 1..(i - 1) : a[j] = b[j]) => a[i] <= b[i]

\* The string without its sign.
Digits(str) == IF str # <<>> /\ str[1] \in {43, 45} THEN Tail(str) ELSE str

\* The string writes a number of -2^31..2^31-1 in decimal: an optional
\* sign and digits (of at most 10 digits here).
IsI32Text(str) ==
    /\ IsDecimal(Digits(str))
    /\ \/ Len(Digits(str)) < 10
       \/ /\ Len(Digits(str)) = 10
          /\ LexLeq(Digits(str),
                    IF str[1] = 45 THEN <<50, 49, 52, 55, 52, 56, 51, 54, 52, 56>>
                    ELSE <<50, 49, 52, 55, 52, 56, 51, 54, 52, 55>>)

\* The number the string writes.
I32Value(str) ==
    IF str[1] = 45 THEN NegDecimal(Tail(str)) ELSE Decimal(Digits(str))

\* A handshake returns in this step from the datagram at the head of the
\* socket.
HandshakeReturns ==
    /\ qPc \in {"handshake", "retry_handshake"}
    /\ qInbox # <<>>
    /\ qInbox' = Tail(qInbox)

\* The call ends in this step with the error e.
EndsWith(e) == qPc' = "done" /\ Fails(qResult', e)

\* The handshake hands (token, qSessionId) to its caller in this step: the
\* first one to the function, which sends its stat request, the second one
\* to the retry arm.
HandshakeYields(token) ==
    IF qPc = "handshake"
    THEN /\ qToken' = token
         /\ qSession' = qSessionId
         /\ \/ qPc' = "stat"
            \/ EndsWith("Io")
    ELSE /\ qRetry' = [token |-> token, session |-> qSessionId]
         /\ qPc' = "retry_stat"

\* C28 as stated: the reply fails on its type, then on its session id, then
\* with CannotParseInt on every token string that is no decimal 32-bit
\* integer, and otherwise the handshake returns (token, session id).
C28_OrderAsClaimed ==
    [][HandshakeReturns =>
         LET d == Head(qInbox)
             tok == d.body.strs[1]
         IN  IF d.type # 9 THEN EndsWith("InvalidPacketType")
             ELSE IF d.session # qSessionId THEN EndsWith("SessionIdMismatch")
             ELSE IF ~IsI32Text(tok) THEN EndsWith("CannotParseInt")
             ELSE HandshakeYields(I32Value(tok))]_vars

\* The step agrees with the order type, session id, UTF-8, number.  Bytes
\* of 0xF8 and above occur in no UTF-8 text.
HandshakeOrder ==
    HandshakeReturns =>
        LET d == Head(qInbox)
            tok == d.body.strs[1]
        IN  IF d.type # 9 THEN EndsWith("InvalidPacketType")
            ELSE IF d.session # qSessionId THEN EndsWith("SessionIdMismatch")
            ELSE IF \E i \in 1..Len(tok) : tok[i] >= 248 THEN EndsWith("InvalidUtf8")
            ELSE IF ~IsI32Text(tok) THEN EndsWith("CannotParseInt")
            ELSE HandshakeYields(I32Value(tok))

\* C28: the handshake validates the reply in this order: a type other than
\* 9 fails with InvalidPacketType, then another session id than the one
\* sent fails with SessionIdMismatch, then a token string that is not
\* UTF-8 fails with InvalidUtf8, then one that is no decimal 32-bit integer
\* fails with CannotParseInt; otherwise it returns (token, session id) with
\* the number the string writes.
C28_HandshakeOrder == [][HandshakeOrder]_vars

\* The first handshake has failed with InvalidUtf8 on a reply of type 9 for
\* its session id whose token string is the byte 0xFF.
C28_Witness ==
    /\ qPc = "done"
    /\ qHandshakes = 1
    /\ qWaits = 0
    /\ qRecv.type = 9
    /\ qRecv.session = qSessionId
    /\ qRecv.body.strs = <<<<255>>>>
    /\ Fails(qResult, "InvalidUtf8")

-----------------------------------------------------------------------------
(* stat_basic on the replies a server can lay out.                         *)

\* The fields of basic stat replies: text (empty, ASCII, the letter e
\* acute), bytes that are no UTF-8, numbers with and without sign, strings
\* that are no numbers, and ports whose two bytes differ.
BasicBodies ==
    { BasicBody(motd, game_type, map, num, max, port, ip) :
        motd \in {<<77>>, <<>>, <<195, 169>>, <<255>>},
        game_type \in {<<83, 77, 80>>, <<255>>},
        map \in {<<119>>},
        num \in {<<51>>, <<43, 51>>, <<48, 48, 55>>, <<120>>, <<>>, <<45, 49>>, <<255>>},
        max \in {<<50, 48>>, <<120>>, <<255>>},
        port \in {<<221, 99>>, <<0, 1>>, <<1, 0>>},
        ip \in {<<104>>, <<255>>} }

\* stat_basic waits for the reply to its first stat request, and a datagram
\* has arrived.
StatBasicInit ==
    LET session_id == SessionId(<<18, 52, 86, 120>>)
    IN  /\ qPc = "stat"
        /\ qOp = "stat_basic"
        /\ qSent = <<HandshakeRequest(session_id), StatRequest("stat_basic", session_id, 77)>>
        /\ \E type \in {0, 9}, sid \in {session_id, WrongSession}, body \in BasicBodies :
             qInbox = <<Datagram(type, sid, body)>>
        /\ qRecv = Datagram(9, session_id, TokenBody(<<55, 55>>))
        /\ qSessionId = session_id
        /\ qSession = session_id
        /\ qToken = 77
        /\ qRetry = <<>>
        /\ qResult = NoResult
        /\ qRandom = <<<<18, 52, 86, 120>>>>
        /\ qHandshakes = 1
        /\ qWaits = 1
        /\ qCause = "none"
        /\ qBinds = 1

StatBasicNext == QStatReply

InitStatBasic == StatBasicInit /\ VarIntIdle /\ CodecIdle /\ RconIdle /\ StatusIdle /\ BuilderIdle /\ EnumIdle

SpecStatBasic == InitStatBasic /\ [][StatBasicNext]_vars

\* The bytes are no UTF-8 text: bytes of 0xF8 and above occur in none.
NotText(b) == \E i \in 1..Len(b) : b[i] >= 248

\* The string writes a non-negative number in decimal: digits, after an
\* optional plus sign.
IsUnsignedText(str) ==
    /\ str = <<>> \/ str[1] # 45
    /\ IsDecimal(Digits(str))

\* stat_basic has returned on a reply to its stat request that has the
\* right type and session id.
BasicReplyValidated ==
    /\ qPc = "done"
    /\ qOp = "stat_basic"
    /\ qCause = "reply"
    /\ qRecv.type = 0
    /\ qRecv.session = qSession
    /\ Len(qRecv.body.strs) = 7

\* The response whose fields are the wire fields f, the port little-endian.
BasicResponseOf(f) ==
    Ok([motd |-> Utf8Decode(f[1]), game_type |-> Utf8Decode(f[2]),
        map |-> Utf8Decode(f[3]), num_players |-> Decimal(Digits(f[4])),
        max_players |-> Decimal(Digits(f[5])),
        host_port |-> f[6][1] + 256 * f[6][2], host_ip |-> Utf8Decode(f[7])])

\* C29 as stated: on a validated reply whose strings before the numbers are
\* text, a number of players that is no non-negative decimal number fails
\* with CannotParseInt.
C29_NumbersAsClaimed ==
    BasicReplyValidated =>
        LET f == qRecv.body.strs
        IN  (/\ ~NotText(f[1]) /\ ~NotText(f[2]) /\ ~NotText(f[3])
             /\ ~IsUnsignedText(f[4]))
            => Fails(qResult, "CannotParseInt")

\* C29: stat_basic parses a validated reply in the order motd, game type,
\* map, num players, max players, host port (2 bytes, little-endian), host
\* ip.  The first field in this order that is no UTF-8 text (InvalidUtf8)
\* or, for the two numbers, text that is no non-negative decimal number
\* (CannotParseInt) decides the error; without one, each result field
\* equals its wire field.
C29_BasicFields ==
    BasicReplyValidated =>
        LET f == qRecv.body.strs
        IN  IF NotText(f[1]) \/ NotText(f[2]) \/ NotText(f[3]) \/ NotText(f[4])
            THEN Fails(qResult, "InvalidUtf8")
            ELSE IF ~IsUnsignedText(f[4]) THEN Fails(qResult, "CannotParseInt")
            ELSE IF NotText(f[5]) THEN Fails(qResult, "InvalidUtf8")
            ELSE IF ~IsUnsignedText(f[5]) THEN Fails(qResult, "CannotParseInt")
            ELSE IF NotText(f[7]) THEN Fails(qResult, "InvalidUtf8")
            ELSE qResult = BasicResponseOf(f)

\* stat_basic has returned the fields of a reply with the motd e acute, 3
\* of 20 players written "+3" and "20", and the port 25565 sent as DD 63.
C29_Witness ==
    /\ BasicReplyValidated
    /\ qRecv.body.strs = << <<195, 169>>, <<83, 77, 80>>, <<119>>, <<43, 51>>,
                            <<50, 48>>, <<221, 99>>, <<104>> >>
    /\ qResult = Ok([motd |-> <<233>>, game_type |-> <<83, 77, 80>>, map |-> <<119>>,
                     num_players |-> 3, max_players |-> 20, host_port |-> 25565,
                     host_ip |-> <<104>>])

-----------------------------------------------------------------------------
(* Properties of stat_full on the replies of SpecStatFull.                 *)

\* The value the pairs give the key k: that of its last pair.
ValueOf(pairs, k) ==
    LET at == { i \in 1..Len(pairs) : pairs[i][1] = k }
    IN  pairs[CHOOSE i \in at : \A j \in at : j <= i][2]

\* stat_full has returned on a reply to its stat request that has the
\* right type and session id and every required key.
FullReplyComplete ==
    /\ qPc = "done"
    /\ qOp = "stat_full"
    /\ qCause = "reply"
    /\ qRecv.type = 0
    /\ qRecv.session = qSession
    /\ Required \subseteq KeysOf(qRecv.body.pairs)

\* The response whose fields are the values of the required keys and whose
\* players are the names, in the order of the wire.
FullResponseOf(pairs, players) ==
    Ok([motd |-> ValueOf(pairs, K_hostname), game_type |-> ValueOf(pairs, K_gametype),
        game_id |-> ValueOf(pairs, K_game_id), version |-> ValueOf(pairs, K_version),
        plugins |-> ValueOf(pairs, K_plugins), map |-> ValueOf(pairs, K_map),
        num_players |-> Decimal(Digits(ValueOf(pairs, K_numplayers))),
        max_players |-> Decimal(Digits(ValueOf(pairs, K_maxplayers))),
        host_port |-> Decimal(Digits(ValueOf(pairs, K_hostport))),
        host_ip |-> ValueOf(pairs, K_hostip),
        players |-> players])

\* C30: stat_full parses a validated reply by skipping 11 bytes, reading
\* (key, value) pairs until an empty key, skipping 10 bytes and reading
\* player names until an empty string.  With every required key present:
\* numplayers, maxplayers or hostport that do not parse as numbers fail
\* with CannotParseInt; otherwise a name that is no UTF-8 fails with
\* InvalidUtf8; otherwise the fields returned are the values of the
\* required keys (motd that of hostname) and the players are the names in
\* the order of the wire.
C30_FullFields ==
    FullReplyComplete =>
        LET pairs == qRecv.body.pairs
            players == qRecv.body.players
        IN  IF \E k \in {K_numplayers, K_maxplayers, K_hostport} :
                   ~IsUnsignedText(ValueOf(pairs, k))
            THEN Fails(qResult, "CannotParseInt")
            ELSE IF \E i \in 1..Len(players) : NotText(players[i])
            THEN Fails(qResult, "InvalidUtf8")
            ELSE qResult = FullResponseOf(pairs, players)

\* stat_full has returned the ten fields of the pairs of SamplePairs and
\* the players b, a in this order.
C30_Witness ==
    /\ FullReplyComplete
    /\ qRecv.body.pairs = SamplePairs
    /\ qRecv.body.players = <<<<98>>, <<97>>>>
    /\ qResult.kind = "Ok"
    /\ qResult.value.motd = <<77>>
    /\ qResult.value.num_players = 3
    /\ qResult.value.max_players = 20
    /\ qResult.value.host_port = 25565
    /\ qResult.value.players = <<<<98>>, <<97>>>>

-----------------------------------------------------------------------------
(* Status protocol: packets and the reads from the connection.             *)

\* Mutant: the length prefix counts the payload only.
PacketBytesPayloadLength(id, payload) ==
    VarIntFrom(Len(payload)) \o <<id>> \o payload
\* impl From<Packet> for Bytes
PacketBytes(id, payload) ==
    VarIntFrom(Len(VarIntFrom(id)) + Len(payload)) \o <<id>> \o payload

\* PacketBuilder::add_varint
add_varint(bytes, varint) == bytes \o varint

\* PacketBuilder::add_string
add_string(bytes, string) ==
    add_varint(bytes, VarIntFrom(Utf8Len(string))) \o AsBytes(string)

\* PacketBuilder::add_u16
add_u16(bytes, short) == bytes \o PutU16BE(short)

\* The handshake packet of status().
HandshakePacket(host, port) ==
    PacketBytes(0,
        add_varint(add_u16(add_string(add_varint(<<>>, VarIntFrom(-1)), host), port),
                   VarIntFrom(1)))

\* The status request packet of status().
StatusRequestPacket == PacketBytes(0, <<>>)

\* What a read from the connection yields: kind is "Ok", "Err", "Panic",
\* or "More" when the bytes that have arrived do not complete the read;
\* rest is what the read leaves on the stream.
Read(res, rest) ==
    [kind |-> res.kind, value |-> res.value, error |-> res.error, rest |-> rest]

More == Read([kind |-> "More", value |-> 0, error |-> ""], <<>>)

\* The number of bytes the loop of read_varint reads: up to the first one
\* without CONTINUE_BIT.  0 when no such byte has arrived.
Terminator(stream) ==
    LET ends == {i \in 1..Len(stream) : ByteAnd(stream[i], CONTINUE_BIT) = 0}
    IN  IF ends = {} THEN 0 ELSE CHOOSE i \in ends : \A j \in ends : i <= j

\* Mutant: the byte that ends the loop is not put into the buffer.
ReadVarintBytesWithoutLast(stream) == SubSeq(stream, 1, Terminator(stream) - 1)

\* The buffer read_varint hands to VarInt::new.
ReadVarintBytes(stream) == SubSeq(stream, 1, Terminator(stream))

\* read_varint
ReadVarint(stream) ==
    IF Terminator(stream) = 0 THEN More
    ELSE Read(VarIntTryInto(ReadVarintBytes(stream)), Skip(stream, Terminator(stream)))

\* Mutant: the length prefix counts one byte too many.
ReadMcStringOneLess(stream) ==
    LET len == ReadVarint(stream)
        buffer == SubSeq(len.rest, 1, len.value - 1)
    IN  IF len.kind # "Ok" THEN len
        ELSE IF len.value < 1 THEN Read(Panic, len.rest)
        ELSE IF Len(len.rest) < len.value - 1 THEN More
        ELSE IF ~IsUtf8(buffer) THEN Read(Err("InvalidData"), Skip(len.rest, len.value - 1))
        ELSE Read(Ok(Utf8Decode(buffer)), Skip(len.rest, len.value - 1))

\* read_mc_string.  vec![0; len as usize] panics (capacity overflow) for a
\* negative len.
ReadMcString(stream) ==
    LET len == ReadVarint(stream)
        buffer == SubSeq(len.rest, 1, len.value)
    IN  IF len.kind # "Ok" THEN len
        ELSE IF len.value < 0 THEN Read(Panic, len.rest)
        ELSE IF Len(len.rest) < len.value THEN More
        ELSE IF ~IsUtf8(buffer) THEN Read(Err("InvalidData"), Skip(len.rest, len.value))
        ELSE Read(Ok(Utf8Decode(buffer)), Skip(len.rest, len.value))

\* Mutant: the packet id is not looked at.
StatusReplyAnyId(stream) ==
    LET len == ReadVarint(stream)
        id == ReadVarint(len.rest)
    IN  IF len.kind # "Ok" THEN len
        ELSE IF id.kind # "Ok" THEN id
        ELSE ReadMcString(id.rest)

\* status() from `let _len` to read_mc_string.
StatusReply(stream) ==
    LET len == ReadVarint(stream)
        id == ReadVarint(len.rest)
    IN  IF len.kind # "Ok" THEN len
        ELSE IF id.kind # "Ok" THEN id
        ELSE IF id.value # 0 THEN Read(Err("InvalidStatusResponse"), id.rest)
        ELSE ReadMcString(id.rest)

\* The buffers the read_varint calls of status() hand to the decoder on the
\* stream: of the length, of the packet id, of the length of the string.
DecoderInputs(stream) ==
    LET len == ReadVarint(stream)
        id == ReadVarint(len.rest)
        str == ReadVarint(id.rest)
    IN  IF len.kind = "More" THEN <<>>
        ELSE IF len.kind # "Ok" \/ id.kind = "More" THEN <<ReadVarintBytes(stream)>>
        ELSE IF id.kind # "Ok" \/ id.value # 0 \/ str.kind = "More"
        THEN <<ReadVarintBytes(stream), ReadVarintBytes(len.rest)>>
        ELSE <<ReadVarintBytes(stream), ReadVarintBytes(len.rest),
               ReadVarintBytes(id.rest)>>

\* {"version":{"name":"1.20","protocol":763},"players":{"max":20,"online":3},
\*  "description":"A server"}
SampleJson ==
    <<123, 34, 118, 101, 114, 115, 105, 111, 110, 34, 58, 123, 34, 110,
       97, 109, 101, 34, 58, 34, 49, 46, 50, 48, 34, 44, 34, 112, 114, 111,
       116, 111, 99, 111, 108, 34, 58, 55, 54, 51, 125, 44, 34, 112, 108,
       97, 121, 101, 114, 115, 34, 58, 123, 34, 109, 97, 120, 34, 58, 50,
       48, 44, 34, 111, 110, 108, 105, 110, 101, 34, 58, 51, 125, 44, 34,
       100, 101, 115, 99, 114, 105, 112, 116, 105, 111, 110, 34, 58, 34,
       65, 32, 115, 101, 114, 118, 101, 114, 34, 125>>

\* SampleJson followed by 30 spaces.
SampleJsonPadded == SampleJson \o [i \in 1..30 |-> 32]

\* The StatusResponse of SampleJson.
SampleStatus ==
    [version |-> [name |-> "1.20", protocol |-> 763],
     players |-> [max |-> 20, online |-> 3, sample |-> "None"],
     motd |-> "A server", favicon |-> "None",
     previews_chat |-> "None", enforces_secure_chat |-> "None"]

\* serde_json::from_str::<StatusResponse> on the strings of the model:
\* the two documents above decode, the others ("{}", "e-acute", "") lack
\* the required fields or are no JSON.
from_str(data) ==
    IF data \in {SampleJson, SampleJsonPadded} THEN Ok(SampleStatus) ELSE Err("Json")

\* The last expression of status().
StatusDecode(data) ==
    IF from_str(data).kind = "Ok" THEN from_str(data) ELSE Err("InvalidStatusResponse")

-----------------------------------------------------------------------------
(* Status client: status().                                                *)
(*                                                                         *)
(* The call suspends in its reads until the bytes they ask for have        *)
(* arrived or the server has closed the connection.                        *)

\* The arguments: host "h" with port 25565, host e-acute with port 80.
StatusArgs == {[host |-> <<104>>, port |-> 25565], [host |-> <<233>>, port |-> 80]}

\* The encodings of the packet id a server sends: 0, 0 in two bytes, 1,
\* 128, -1, and six bytes that are no VarInt.
IdSamplesOnWire ==
    {<<0>>, <<128, 0>>, <<1>>, <<128, 1>>, VarIntFrom(-1),
     <<255, 255, 255, 255, 255, 1>>}

\* The bytes of the string payload: the two documents, "{}", e-acute, the
\* byte 0xFF (no UTF-8) and the empty string.
PayloadSamples ==
    {SampleJson, SampleJsonPadded, <<123, 125>>, <<195, 169>>, <<255>>, <<>>}

\* A response: the length prefix is right (framed) or 0, the string is
\* declared with its length or (negative) with -1, and the last `cut`
\* bytes do not arrive.
Response(framed, id, payload, negative, cut) ==
    LET str == VarIntFrom(IF negative THEN -1 ELSE Len(payload)) \o payload
        all == VarIntFrom(IF framed THEN Len(id) + Len(str) ELSE 0) \o id \o str
    IN  [framed |-> framed, id |-> id, payload |-> payload, negative |-> negative,
         cut |-> cut, bytes |-> SubSeq(all, 1, Len(all) - cut)]

Responses ==
    { Response(framed, id, payload, FALSE, cut) :
        framed \in BOOLEAN, id \in IdSamplesOnWire, payload \in PayloadSamples,
        cut \in {0, 1} }
    \cup { Response(TRUE, <<0>>, <<123, 125>>, TRUE, 0) }

StatusInit ==
    /\ sPc = "start"
    /\ sArgs \in StatusArgs
    /\ sOut = <<>>
    /\ sIn = <<>>
    /\ sEof = FALSE
    /\ sResult = NoResult
    /\ sResponse = <<>>
    /\ sConsumed = 0
    /\ sData = <<>>
    /\ sVarInts = <<>>

\* Mutant: the status request packet is written before the handshake
\* packet.
StatusConnectRequestFirst ==
    /\ sPc = "start"
    /\ \E written \in 0..2 :
         /\ sOut' = (IF written >= 1 THEN StatusRequestPacket ELSE <<>>)
                    \o (IF written = 2 THEN HandshakePacket(sArgs.host, sArgs.port)
                        ELSE <<>>)
         /\ sPc' = IF written = 2 THEN "reading" ELSE "done"
         /\ sResult' = IF written = 2 THEN sResult ELSE Err("Io")
    /\ UNCHANGED <<sArgs, sIn, sEof, sResponse, sConsumed, sData, sVarInts>>
    /\ UNCHANGED exceptStatus
\* status() up to its first read: `written` is the number of packets
\* written before connect, ready or write_all fails, 2 when none does.
StatusConnect ==
    /\ sPc = "start"
    /\ \E written \in 0..2 :
         /\ sOut' = (IF written >= 1 THEN HandshakePacket(sArgs.host, sArgs.port)
                     ELSE <<>>)
                    \o (IF written = 2 THEN StatusRequestPacket ELSE <<>>)
         /\ sPc' = IF written = 2 THEN "reading" ELSE "done"
         /\ sResult' = IF written = 2 THEN sResult ELSE Err("Io")
    /\ UNCHANGED <<sArgs, sIn, sEof, sResponse, sConsumed, sData, sVarInts>>
    /\ UNCHANGED exceptStatus

\* status() from its first read to its return: `shut` says whether
\* socket.shutdown() succeeds.
StatusRead ==
    /\ sPc = "reading"
    /\ LET reply == StatusReply(sIn)
       IN  IF reply.kind = "More"
           THEN /\ sEof
                /\ sResult' = Err("Io")
                /\ sIn' = <<>>
                /\ sConsumed' = sConsumed + Len(sIn)
                /\ sData' = sData
           ELSE /\ sIn' = reply.rest
                /\ sConsumed' = sConsumed + (Len(sIn) - Len(reply.rest))
                /\ IF reply.kind # "Ok"
                   THEN /\ sResult' = [kind |-> reply.kind, value |-> reply.value,
                                       error |-> reply.error]
                        /\ sData' = sData
                   ELSE \E shut \in BOOLEAN :
                          IF shut
                          THEN /\ sResult' = StatusDecode(reply.value)
                               /\ sData' = Append(sData, reply.value)
                          ELSE /\ sResult' = Err("Io")
                               /\ sData' = sData
    /\ sPc' = "done"
    /\ sVarInts' = sVarInts \o DecoderInputs(sIn)
    /\ UNCHANGED <<sArgs, sOut, sEof, sResponse>>
    /\ UNCHANGED exceptStatus

\* The server sends its response.
StatusRespond ==
    /\ sPc = "reading"
    /\ sResponse = <<>>
    /\ ~sEof
    /\ \E r \in Responses :
         /\ sIn' = r.bytes
         /\ sResponse' = <<r>>
    /\ UNCHANGED <<sPc, sArgs, sOut, sEof, sResult, sConsumed, sData, sVarInts>>
    /\ UNCHANGED exceptStatus

\* The server closes the connection.
StatusClose ==
    /\ sPc = "reading"
    /\ ~sEof
    /\ sEof' = TRUE
    /\ UNCHANGED <<sPc, sArgs, sOut, sIn, sResult, sResponse, sConsumed, sData,
                   sVarInts>>
    /\ UNCHANGED exceptStatus

StatusNext ==
    \/ StatusConnect
    \/ StatusRead
    \/ StatusRespond
    \/ StatusClose

InitStatus == StatusInit /\ VarIntIdle /\ CodecIdle /\ RconIdle /\ QueryIdle /\ BuilderIdle /\ EnumIdle

SpecStatus == InitStatus /\ [][StatusNext]_vars

-----------------------------------------------------------------------------
(* Properties of the status client.                                        *)

\* The two packets status() writes, byte by byte, for the arguments of the
\* model: length, id 0, VarInt(-1), the host as a string, the port, 1; then
\* length 1, id 0.
ExpectedOut(args) ==
    (IF args.host = <<104>>
     THEN <<11, 0, 255, 255, 255, 255, 15, 1, 104, 99, 221, 1>>
     ELSE <<12, 0, 255, 255, 255, 255, 15, 2, 195, 169, 0, 80, 1>>)
    \o <<1, 0>>

\* status() has read the response of the server and has returned.
StatusAnswered ==
    /\ sPc = "done"
    /\ Len(sResponse) = 1
    /\ sConsumed > 0

\* The number of bytes of the string (prefix and payload) that arrived.
StringBytes(r) == (IF Len(r.payload) >= 128 THEN 2 ELSE 1) + Len(r.payload) - r.cut

\* C15: status() fails with InvalidStatusResponse whenever the packet id
\* of the response is not 0, and reads nothing of the string payload; it
\* reads the response only after it has written the handshake packet and
\* then the status request packet, and nothing else.
C15_WrongPacketId ==
    /\ (sPc = "reading" \/ sConsumed > 0) => sOut = ExpectedOut(sArgs)
    /\ (StatusAnswered /\ sResponse[1].id \in {<<1>>, <<128, 1>>, <<255, 255, 255, 255, 15>>})
         => /\ Fails(sResult, "InvalidStatusResponse")
            /\ Len(sIn) = StringBytes(sResponse[1])
            /\ sConsumed + Len(sIn) = Len(sResponse[1].bytes)
            /\ sData = <<>>

\* status() has failed on a response with packet id 128 whose payload is
\* the sample document, which it has left unread.
C15_Witness ==
    /\ StatusAnswered
    /\ sResponse[1].id = <<128, 1>>
    /\ sResponse[1].payload = SampleJson
    /\ sResponse[1].cut = 0
    /\ Len(sIn) = 100
    /\ Fails(sResult, "InvalidStatusResponse")

\* The response has packet id 0 and a complete string payload of valid
\* UTF-8.
WellFormedResponse(r) ==
    /\ r.id \in {<<0>>, <<128, 0>>}
    /\ r.payload # <<255>>
    /\ ~r.negative
    /\ r.cut = 0

\* C16: on a response with packet id 0 and a string payload, status()
\* hands exactly that string to the JSON decoder and returns what the
\* decoder returns (players.online is 3 for the sample document), with the
\* decoder's error replaced by InvalidStatusResponse; short of an I/O
\* error of socket.shutdown(), which ends the call before the decoder.
C16_DecodesPayload ==
    (StatusAnswered /\ WellFormedResponse(sResponse[1])) =>
        \/ Fails(sResult, "Io") /\ sData = <<>>
        \/ /\ sData = <<Utf8Decode(sResponse[1].payload)>>
           /\ IF sResponse[1].payload \in {SampleJson, SampleJsonPadded}
              THEN /\ sResult.kind = "Ok"
                   /\ sResult.value.players.online = 3
                   /\ sResult.value = SampleStatus
              ELSE Fails(sResult, "InvalidStatusResponse")

\* status() has returned the StatusResponse of the padded sample document,
\* whose length takes two bytes, sent with a packet id of two bytes.
C16_Witness ==
    /\ StatusAnswered
    /\ sResponse[1].id = <<128, 0>>
    /\ sResponse[1].payload = SampleJsonPadded
    /\ sResponse[1].cut = 0
    /\ sData = <<SampleJsonPadded>>
    /\ sResult.kind = "Ok"
    /\ sResult.value.players.online = 3

-----------------------------------------------------------------------------
(* Properties of the status client: the packets written.                   *)

\* The handshake packet on the wire: length, id 0, VarInt(-1), the length
\* of the host in bytes, the host (e-acute is C3 A9), the port most
\* significant byte first, VarInt(1).
HandshakeWire(args) ==
    LET host == IF args.host = <<233>> THEN <<195, 169>> ELSE args.host
        payload == <<255, 255, 255, 255, 15>> \o <<Len(host)>> \o host
                   \o <<args.port \div 256, args.port % 256>> \o <<1>>
    IN  <<Len(payload) + 1, 0>> \o payload

\* C31: the first two packets status() sends are, in this order, the
\* handshake packet (id 0, VarInt(-1), the host as a string, the port
\* big-endian, VarInt(1)) and the status request packet (01 00); what has
\* been written is nothing, the first or both, and nothing is read from
\* the server before both are written.
C31_SendOrder ==
    /\ sOut \in {<<>>, HandshakeWire(sArgs), HandshakeWire(sArgs) \o <<1, 0>>}
    /\ (sConsumed > 0 \/ sData # <<>> \/ sResult.kind = "Ok")
         => sOut = HandshakeWire(sArgs) \o <<1, 0>>
    /\ sOut # HandshakeWire(sArgs) \o <<1, 0>>
         => sPc \in {"start", "done"} /\ sConsumed = 0 /\ sIn = <<>>

\* status("e-acute", 80) has written both packets, 15 bytes, and has then
\* read a response.
C31_Witness ==
    /\ sArgs.port = 80
    /\ sOut = <<12, 0, 255, 255, 255, 255, 15, 2, 195, 169, 0, 80, 1, 1, 0>>
    /\ sPc = "done"
    /\ sConsumed > 0

-----------------------------------------------------------------------------
(* Properties of the reads of status().                                    *)

\* The number of bytes of the length prefix of the response r.
PrefixBytes(r) == Len(r.bytes) - Len(r.id) - StringBytes(r)

\* C34: read_varint fails with InvalidVarInt as soon as it has consumed 5
\* bytes with the continuation bit set, and consumes no 6th byte of one
\* VarInt: of a response whose packet id is FF FF FF FF FF 01, status()
\* reads the length prefix and 5 bytes.
C34_AtMostFiveBytes ==
    (/\ StatusAnswered
     /\ sResponse[1].id = <<255, 255, 255, 255, 255, 1>>
     /\ sResponse[1].cut = 0)
    => /\ sResult.kind = "Err"
       /\ sConsumed = PrefixBytes(sResponse[1]) + 5

-----------------------------------------------------------------------------
(* Properties of the RCON client: calls after a call that timed out.       *)

\* C35: the string run_command returns consists only of payloads of
\* packets the server sent in answer to this command, in their order, also
\* when an earlier call on the client timed out before its reply was read.
C35_OnlyOwnReplies ==
    (/\ nCalls > 0
     /\ cur.op = "run_command"
     /\ pc = "idle"
     /\ result.kind = "Ok")
    => \E n \in 1..Len(answer) : result.value = Payloads(SubSeq(answer, 1, n))

-----------------------------------------------------------------------------
(* Properties of the RCON packet codec: frames as read_packet hands them   *)
(* over, the length field followed by as many bytes as it says.            *)

\* C36: reading an RCON packet yields a packet or an error for every frame
\* a server can send, also when no zero byte follows the 12 bytes of the
\* header: the decoder never reads past the end of the frame and never
\* aborts.
C36_NeverAborts ==
    (rcPc = "decoded" /\ rcSrc = "raw" /\ rcRaw.skew = 0)
        => rcResult.kind \in {"Ok", "Err"}

-----------------------------------------------------------------------------
(* Packet builder: Packet::builder(id), add_ calls, build() and bytes().   *)

\* The most add_ calls on one builder.
MaxAdds == 3

\* The arguments of add_varint, add_string (the empty string, "h", e-acute,
\* 130 times "a") and add_u16.
VarintArgs == {-1, 0, 1, 127, 128, 300}

StringArgs == {<<>>, <<104>>, <<233>>, [i \in 1..130 |-> 97]}

ShortArgs == {0, 80, 25565, 65535}

\* Packet::builder(id) for PacketId::Handshake or PacketId::Status.
BuilderInit ==
    /\ pbPc = "building"
    /\ pbId \in {0, 1}
    /\ pbBytes = <<>>
    /\ pbPacket = <<>>
    /\ pbCalls = <<>>

\* add_varint
BuilderAddVarint ==
    /\ pbPc = "building"
    /\ Len(pbCalls) < MaxAdds
    /\ \E v \in VarintArgs :
         /\ pbBytes' = add_varint(pbBytes, VarIntFrom(v))
         /\ pbCalls' = Append(pbCalls, [op |-> "varint", arg |-> v])
    /\ UNCHANGED <<pbPc, pbId, pbPacket>>
    /\ UNCHANGED exceptBuilder

\* add_string
BuilderAddString ==
    /\ pbPc = "building"
    /\ Len(pbCalls) < MaxAdds
    /\ \E string \in StringArgs :
         /\ pbBytes' = add_string(pbBytes, string)
         /\ pbCalls' = Append(pbCalls, [op |-> "string", arg |-> string])
    /\ UNCHANGED <<pbPc, pbId, pbPacket>>
    /\ UNCHANGED exceptBuilder

\* add_u16
BuilderAddU16 ==
    /\ pbPc = "building"
    /\ Len(pbCalls) < MaxAdds
    /\ \E short \in ShortArgs :
         /\ pbBytes' = add_u16(pbBytes, short)
         /\ pbCalls' = Append(pbCalls, [op |-> "u16", arg |-> short])
    /\ UNCHANGED <<pbPc, pbId, pbPacket>>
    /\ UNCHANGED exceptBuilder

\* build() followed by bytes().
BuilderBuild ==
    /\ pbPc = "building"
    /\ pbPacket' = PacketBytes(pbId, pbBytes)
    /\ pbPc' = "built"
    /\ UNCHANGED <<pbId, pbBytes, pbCalls>>
    /\ UNCHANGED exceptBuilder

BuilderNext ==
    \/ BuilderAddVarint
    \/ BuilderAddString
    \/ BuilderAddU16
    \/ BuilderBuild

InitBuilder ==
    /\ BuilderInit /\ VarIntIdle /\ CodecIdle /\ RconIdle /\ QueryIdle /\ StatusIdle
    /\ EnumIdle

SpecBuilder == InitBuilder /\ [][BuilderNext]_vars

\* The VarInt of a number of the model, byte by byte.
VarIntWire(n) ==
    IF n = -1 THEN <<255, 255, 255, 255, 15>>
    ELSE IF n < 128 THEN <<n>>
    ELSE <<128 + (n % 128), n \div 128>>

\* The bytes one add_ call appends.
CallWire(call) ==
    IF call.op = "varint" THEN VarIntWire(call.arg)
    ELSE IF call.op = "u16" THEN <<call.arg \div 256, call.arg % 256>>
    ELSE IF call.arg = <<233>> THEN <<2, 195, 169>>
    ELSE VarIntWire(Len(call.arg)) \o call.arg

RECURSIVE CallsWire(_)
\* The bytes of the calls, in call order.
CallsWire(calls) ==
    IF calls = <<>> THEN <<>> ELSE CallWire(Head(calls)) \o CallsWire(Tail(calls))

\* C32: a packet built by the builder serializes to VarInt(length) ++
\* VarInt(id) ++ payload, where length is the number of bytes after the
\* length prefix (that of the id plus that of the payload) and the payload
\* is the concatenation of what the add_ calls append, in call order.
C32_PacketWireForm ==
    /\ pbPc # "off" => pbBytes = CallsWire(pbCalls)
    /\ pbPc = "built" =>
         LET payload == CallsWire(pbCalls)
             prefix == VarIntWire(1 + Len(payload))
         IN  /\ pbPacket = prefix \o VarIntWire(pbId) \o payload
             /\ Len(pbPacket) - Len(prefix) = 1 + Len(payload)

\* The packet of id 1 built from add_string of 130 times "a", add_u16 of
\* 25565 and add_varint of 300: 137 bytes after a length prefix of 2.
C32_Witness ==
    /\ pbPc = "built"
    /\ pbId = 1
    /\ pbCalls = <<[op |-> "string", arg |-> [i \in 1..130 |-> 97]],
                   [op |-> "u16", arg |-> 25565], [op |-> "varint", arg |-> 300]>>
    /\ SubSeq(pbPacket, 1, 5) = <<137, 1, 1, 130, 1>>
    /\ SubSeq(pbPacket, 136, 139) = <<99, 221, 172, 2>>
-----------------------------------------------------------------------------
(* Packet type enums and their wire integers.                              *)

QueryPacketTypes == {"Handshake", "Stat"}

\* impl From<QueryPacketType> for u8
QueryPacketTypeToU8(packet_type) ==
    CASE packet_type = "Handshake" -> 9
      [] packet_type = "Stat" -> 0

\* Mutant: an unknown value reads as Stat.
QueryPacketTypeTryFromDefault(value) ==
    CASE value = 9 -> Ok("Handshake")
      [] OTHER -> Ok("Stat")

\* impl TryFrom<u8> for QueryPacketType
QueryPacketTypeTryFrom(value) ==
    CASE value = 9 -> Ok("Handshake")
      [] value = 0 -> Ok("Stat")
      [] OTHER -> Err("InvalidPacketType")

PacketIds == {"Handshake", "Status"}

\* impl From<PacketId> for u8
PacketIdToU8(id) ==
    CASE id = "Handshake" -> 0
      [] id = "Status" -> 1

\* impl TryFrom<u8> for PacketId
PacketIdTryFrom(value) ==
    CASE value = 0 -> Ok("Handshake")
      [] value = 1 -> Ok("Status")
      [] OTHER -> Err("InvalidState")

\* The variants of an enum, and the integers of its wire type: every u8,
\* and for i32 the numbers around the known ones, those that agree with
\* them in the low byte, and both ends.
Variants(enum) ==
    CASE enum = "RconPacketType" -> RconPacketTypes
      [] enum = "QueryPacketType" -> QueryPacketTypes
      [] enum = "PacketId" -> PacketIds

WireIntegers(enum) ==
    IF enum = "RconPacketType"
    THEN (-4..9) \cup {255, 256, 258, 259, 2147483647, (0 - 2147483647) - 1}
    ELSE 0..255

\* .into() of a variant
EnumToInteger(enum, variant) ==
    CASE enum = "RconPacketType" -> RconPacketTypeToI32(variant)
      [] enum = "QueryPacketType" -> QueryPacketTypeToU8(variant)
      [] enum = "PacketId" -> PacketIdToU8(variant)

\* .try_into() of an integer
EnumTryFrom(enum, value) ==
    CASE enum = "RconPacketType" -> RconPacketTypeTryFrom(value)
      [] enum = "QueryPacketType" -> QueryPacketTypeTryFrom(value)
      [] enum = "PacketId" -> PacketIdTryFrom(value)

\* A variant or an integer is about to be converted.
EnumInit ==
    /\ cvPc = "input"
    /\ cvEnum \in {"RconPacketType", "QueryPacketType", "PacketId"}
    /\ cvDir \in {"from", "try_from"}
    /\ cvIn \in (IF cvDir = "from" THEN Variants(cvEnum) ELSE WireIntegers(cvEnum))
    /\ cvOut = 0
    /\ cvBack = 0

\* A variant is converted to its integer.
EnumInto ==
    /\ cvPc = "input"
    /\ cvDir = "from"
    /\ cvOut' = EnumToInteger(cvEnum, cvIn)
    /\ cvPc' = "converted"
    /\ UNCHANGED <<cvEnum, cvDir, cvIn, cvBack>>
    /\ UNCHANGED exceptEnum

\* An integer is converted to a variant.
EnumTryInto ==
    /\ cvPc = "input"
    /\ cvDir = "try_from"
    /\ cvOut' = EnumTryFrom(cvEnum, cvIn)
    /\ cvPc' = "converted"
    /\ UNCHANGED <<cvEnum, cvDir, cvIn, cvBack>>
    /\ UNCHANGED exceptEnum

\* The integer of a variant, or the variant of an integer, is converted
\* back.
EnumBack ==
    /\ cvPc = "converted"
    /\ cvDir = "try_from" => cvOut.kind = "Ok"
    /\ cvBack' = IF cvDir = "from" THEN EnumTryFrom(cvEnum, cvOut)
                 ELSE EnumToInteger(cvEnum, cvOut.value)
    /\ cvPc' = "back"
    /\ UNCHANGED <<cvEnum, cvDir, cvIn, cvOut>>
    /\ UNCHANGED exceptEnum

EnumNext ==
    \/ EnumInto
    \/ EnumTryInto
    \/ EnumBack

InitEnum ==
    /\ EnumInit /\ VarIntIdle /\ CodecIdle /\ RconIdle /\ QueryIdle /\ StatusIdle
    /\ BuilderIdle

SpecEnum == InitEnum /\ [][EnumNext]_vars

\* The table of the protocol: the pairs <<integer, variant>> of an enum and
\* the error of every other integer.
WireTable(enum) ==
    CASE enum = "RconPacketType" ->
             {<<0, "Response">>, <<2, "RunCommand">>, <<3, "Login">>}
      [] enum = "QueryPacketType" -> {<<9, "Handshake">>, <<0, "Stat">>}
      [] enum = "PacketId" -> {<<0, "Handshake">>, <<1, "Status">>}

DecodeError(enum) == IF enum = "PacketId" THEN "InvalidState" ELSE "InvalidPacketType"

\* C33: each packet-type enum maps to and from its wire integer as the
\* table says and one to one (converting back returns what was converted),
\* and every integer outside the table is rejected with the decode error
\* of the enum, never turned into a variant.
C33_EnumBijection ==
    /\ (cvPc \in {"converted", "back"} /\ cvDir = "from")
         => <<cvOut, cvIn>> \in WireTable(cvEnum)
    /\ (cvPc \in {"converted", "back"} /\ cvDir = "try_from")
         => IF \E pair \in WireTable(cvEnum) : pair[1] = cvIn
            THEN cvOut.kind = "Ok" /\ <<cvIn, cvOut.value>> \in WireTable(cvEnum)
            ELSE Fails(cvOut, DecodeError(cvEnum))
    /\ (cvPc = "back" /\ cvDir = "from") => cvBack = Ok(cvIn)
    /\ (cvPc = "back" /\ cvDir = "try_from") => cvBack = cvIn
    /\ \A enum \in {"RconPacketType", "QueryPacketType", "PacketId"} :
         \A p, q \in WireTable(enum) : (p[1] = q[1] \/ p[2] = q[2]) => p = q

\* The query packet type 1 has been rejected with InvalidPacketType.
C33_Witness ==
    /\ cvPc = "converted"
    /\ cvEnum = "QueryPacketType"
    /\ cvDir = "try_from"
    /\ cvIn = 1
    /\ Fails(cvOut, "InvalidPacketType")
-----------------------------------------------------------------------------
(* Properties of status(): what read_varint hands to the VarInt decoder.   *)

\* A buffer as the loop of read_varint leaves it: not empty, CONTINUE_BIT
\* set in every byte but the last one.
EndsClear(b) ==
    /\ b # <<>>
    /\ ByteAnd(b[Len(b)], CONTINUE_BIT) = 0
    /\ \A i \in 1..(Len(b) - 1) : ByteAnd(b[i], CONTINUE_BIT) # 0

\* C37: during status() the unreachable!() after the loop of the VarInt
\* decoder is never executed: every buffer read_varint hands to the decoder
\* is not empty and ends with a byte without the continuation bit, so the
\* decoder leaves its loop with Ok or with InvalidVarInt.
C37_LoopReturns ==
    \A i \in 1..Len(sVarInts) :
        /\ EndsClear(sVarInts[i])
        /\ \/ VarIntTryInto(sVarInts[i]).kind = "Ok"
           \/ Fails(VarIntTryInto(sVarInts[i]), "InvalidVarInt")

\* C37 witness: status() has handed two buffers to the decoder, one of
\* second of six bytes that the decoder rejects, and the call has ended.
C37_Witness ==
    /\ sPc = "done"
    /\ Len(sVarInts) = 2
    /\ Len(sVarInts[2]) = 6
    /\ Fails(VarIntTryInto(sVarInts[2]), "InvalidVarInt")
-----------------------------------------------------------------------------
(* Properties of the VarInt decoder on encodings that are not minimal.     *)

\* The bytes of a raw input the decoder looks at: up to the first one
\* without the continuation bit.
Encoding(bytes) == SubSeq(bytes, 1, Terminator(bytes))

\* The 7-bit group of byte i of b, 0 when b has no such byte.
GroupAt(b, i) == IF i <= Len(b) THEN b[i] % 128 ELSE 0

\* The groups of b put together modulo 2^32, read as two's complement: of a
\* fifth byte only bits 0..3 are below 2^32.
Accumulated(b) ==
    I32OfGroups(GroupAt(b, 1), GroupAt(b, 2), GroupAt(b, 3), GroupAt(b, 4),
                GroupAt(b, 5) % 16)

\* A minimal encoding: no zero group at the end but in the single byte 0, and
\* nothing above bit 3 in a fifth byte.
Minimal(b) ==
    /\ Len(b) = 1 \/ b[Len(b)] # 0
    /\ Len(b) = 5 => b[5] < 16

\* C38: the decoder accepts every byte string terminated within 5 bytes,
\* minimal or not (80 00 decodes to 0); the result is the value accumulated
\* from the 7-bit groups modulo 2^32 as two's complement, the bits of a fifth
\* byte above bit 3 being discarded; and encoding the result gives the bytes
\* back exactly when they were a minimal encoding.
C38_NonMinimalAccepted ==
    (viPc = "decoded" /\ viSrc = "raw" /\ Terminator(viBytes) \in 1..5)
        => /\ viResult = Ok(Accumulated(Encoding(viBytes)))
           /\ Encoding(viBytes) = <<128, 0>> => viResult = Ok(0)
           /\ (VarIntFrom(viResult.value) = Encoding(viBytes))
                  <=> Minimal(Encoding(viBytes))

\* C38 witness: ff ff ff ff 7f, a fifth byte with bits 4..6 set, has been
\* decoded to -1, whose encoding ff ff ff ff 0f is not the input.
C38_Witness ==
    /\ viPc = "decoded"
    /\ viSrc = "raw"
    /\ viBytes = <<255, 255, 255, 255, 127>>
    /\ viResult = Ok(-1)
    /\ VarIntFrom(-1) = <<255, 255, 255, 255, 15>>
-----------------------------------------------------------------------------
(* Termination of stat_basic and stat_full.                                *)

\* A datagram that has arrived is waiting for a recv_packet that is pending.
QPending == QWaiting /\ qInbox # <<>>

\* What the runtime guarantees to a call.  The call is started; the 250 ms
\* of a wait for a stat reply expire when nothing arrives; and a pending
\* recv_packet returns once a datagram has arrived, which is weak fairness of
\* the steps QHandshakeReply, QRetryHandshakeReply and QStatReply: these are
\* the only steps possible while QPending holds, they are possible whenever
\* it holds, and each of them ends it.  Nothing obliges the server to send a
\* datagram or the socket to fail.
QueryFairness ==
    /\ WF_vars(QStart)
    /\ WF_vars(QStatTimeout)
    /\ WF_vars(QRetryTimeout)
    /\ []<>(~QPending)

SpecQueryLive == InitQuery /\ [][QueryNext]_vars /\ QueryFairness

\* C39: stat_basic and stat_full always terminate: whatever the server does,
\* and also when it never answers the handshake or never answers at all, the
\* call eventually returns a result or an error.
C39_AlwaysReturns == <>(qPc = "done")

\* The waits for a stat reply do end, by a datagram or after 250 ms: a call
\* that does not return is one that waits in handshake().
StatWaitsEnd ==
    /\ (qPc = "stat") ~> (qPc \in {"retry_handshake", "done"})
    /\ (qPc = "retry_stat") ~> (qPc = "done")
    /\ [](qPc # "done") => <>[](qPc \in {"handshake", "retry_handshake"})

-----------------------------------------------------------------------------
(* Properties of the Query client: a late stat reply during the retry.     *)

\* The handshake of the retry arm waits and the next datagram on the socket
\* is a datagram of type 0 for the session of the first stat request.
LateReplyPending ==
    /\ qPc = "retry_handshake"
    /\ qInbox # <<>>
    /\ Head(qInbox).type = 0
    /\ Head(qInbox).session = qSession

\* C40: a late reply to the first stat request (type 0) that arrives while
\* the retry waits for the second handshake reply is consumed as that reply
\* and the call fails with InvalidPacketType: the datagram is not skipped
\* (the call does not go on waiting) and is not returned as the result.
C40_LateReplyConsumed ==
    [][LateReplyPending =>
          /\ qInbox' = Tail(qInbox)
          /\ qRecv' = Head(qInbox)
          /\ qPc' = "done"
          /\ Fails(qResult', "InvalidPacketType")
          /\ qWaits' = qWaits]_queryVars

\* C40 witness: after a timeout of the first wait and a second handshake
\* request, the call has ended with InvalidPacketType on a complete stat
\* reply for the first session, and nothing is left on the socket.
C40_Witness ==
    /\ qPc = "done"
    /\ qCause = "timeout"
    /\ Len(qSent) = 3
    /\ qWaits = 1
    /\ qInbox = <<>>
    /\ qRecv.type = 0
    /\ qRecv.session = qSession
    /\ qRecv.body \in StatBodies(qOp)
    /\ StatParse(qOp, qRecv.bytes, qSession).kind = "Ok"
    /\ Fails(qResult, "InvalidPacketType")
=============================================================================
